---- MODULE Spec2Model ----
(***************************************************************************)
(* Model of the version-resolution and batch-fetch engine of               *)
(* mcp-versioning: the TTL cache (src/cache/cache.ts), the retrying        *)
(* registry client and its latest-version selection                        *)
(* (src/depsdev/client.ts) and the tool layer that fuses cache and         *)
(* registry results (src/tools/index.ts).                                  *)
(***************************************************************************)
EXTENDS Integers, Sequences, FiniteSets, TLC

(***************************************************************************)
(* Bounds of the model.                                                    *)
(***************************************************************************)
MaxEntriesBound == 2
MaxVersions == 3
MaxCalls == 1   \* tool calls in flight at once
MaxBatch == 2   \* packages in one batch request

(***************************************************************************)
(* Ecosystems and TTLs (src/constants/systems.ts).                         *)
(***************************************************************************)
SUPPORTED_SYSTEMS == {"NPM", "CARGO", "PYPI", "GO", "RUBYGEMS", "NUGET"}

DEFAULT_TTL_MS(system) ==
  CASE system = "NPM" -> 30 * 60 * 1000
    [] system = "CARGO" -> 2 * 60 * 60 * 1000
    [] system = "PYPI" -> 60 * 60 * 1000
    [] system = "GO" -> 2 * 60 * 60 * 1000
    [] system = "RUBYGEMS" -> 60 * 60 * 1000
    [] system = "NUGET" -> 60 * 60 * 1000

\* The ecosystems and package names the model's callers use.
Systems == {"NPM", "CARGO"}
Names == {"a", "a|latest"}

\* The instants the clock (Date.now()) takes: at and just after the start,
\* and at and just after the shortest default TTL, so that an entry is read
\* before, at and after its expiry.
Times ==
  {p * DEFAULT_TTL_MS("NPM") + j : p \in {0, 1}, j \in {0, 1}}

VARIABLES
  cache,        \* Cache.cache: the Map's entries in insertion order
  maxEntries,   \* Cache.maxEntries
  ttlOverrides, \* Cache.ttlOverrides: a partial function on ecosystems
  now,          \* Date.now()
  ret,          \* what the last cache call returned
  fr,           \* one call of fetchWithRetry: its locals and its position
  sel,          \* one call of DepsDevClient.getLatestVersion on a fetched list
  calls,        \* the tool calls in flight, each suspended at its await
  resp          \* the tool call that returned in the last step, if one did

cacheVars == <<cache, maxEntries, ttlOverrides, now, ret>>
clientVars == <<fr, sel>>
toolVars == <<calls, resp>>
vars == <<cache, maxEntries, ttlOverrides, now, ret, fr, sel, calls, resp>>

(***************************************************************************)
(* The JavaScript Map holding the entries: insertion-ordered, a set on a   *)
(* present key keeps its position, a delete closes the gap.                *)
(***************************************************************************)
Null == [shape |-> "null"]

\* The tool calls that can overlap, and a slot with no call in flight.
CallIds == 1..MaxCalls
Free == [pc |-> "free"]
NoResponse == [op |-> "none"]

MapHas(m, k) == \E i \in 1..Len(m) : m[i].key = k
MapIndex(m, k) == CHOOSE i \in 1..Len(m) : m[i].key = k
MapGet(m, k) == m[MapIndex(m, k)]
MapDelete(m, k) == SelectSeq(m, LAMBDA e : e.key # k)
MapSet(m, k, e) ==
  IF MapHas(m, k) THEN [m EXCEPT ![MapIndex(m, k)] = e] ELSE Append(m, e)
MapKeys(m) == {m[i].key : i \in 1..Len(m)}

(***************************************************************************)
(* Cache (src/cache/cache.ts).                                             *)
(***************************************************************************)
packageKey(system, name) == system \o ":" \o name \o "#package"

getTTL(ov, system) ==
  IF system \in DOMAIN ov /\ ov[system] # 0
    THEN ov[system]
    ELSE DEFAULT_TTL_MS(system)

\* Cache.get: the value returned, and the store it leaves.
ExpiredAtExpiry(e, t) == t >= e.expiresAt
Expired(e, t) == t > e.expiresAt
CacheGetValue(m, k, t) ==
  IF ~MapHas(m, k) THEN Null
  ELSE IF Expired(MapGet(m, k), t) THEN Null
  ELSE MapGet(m, k).data
CacheGetStore(m, k, t) ==
  IF MapHas(m, k) /\ Expired(MapGet(m, k), t) THEN MapDelete(m, k) ELSE m

\* Cache.set: the eviction of the first key when the store is full, then
\* the insertion.
AtCapacityAbove(m, max) == Len(m) > max
AtCapacity(m, max) == Len(m) >= max
CacheEvictNewest(m, max) ==
  IF AtCapacity(m, max) /\ Len(m) > 0 /\ m[Len(m)].key # ""
    THEN MapDelete(m, m[Len(m)].key)
    ELSE m
CacheEvict(m, max) ==
  IF AtCapacity(m, max) /\ Len(m) > 0 /\ m[1].key # ""
    THEN MapDelete(m, m[1].key)
    ELSE m
CacheSetStoreKeepsExisting(m, max, ov, k, d, system, t) ==
  IF MapHas(m, k) THEN m
  ELSE MapSet(CacheEvict(m, max), k,
              [key |-> k, data |-> d, expiresAt |-> t + getTTL(ov, system)])
CacheSetStore(m, max, ov, k, d, system, t) ==
  MapSet(CacheEvict(m, max), k,
         [key |-> k, data |-> d, expiresAt |-> t + getTTL(ov, system)])

CacheCleanupStoreAtExpiry(m, t) ==
  SelectSeq(m, LAMBDA e : ~ExpiredAtExpiry(e, t))

\* Cache.cleanup: the entries kept, and the count returned.
CacheCleanupStore(m, t) == SelectSeq(m, LAMBDA e : ~Expired(e, t))
CacheCleanupCount(m, t) == Len(m) - Len(CacheCleanupStore(m, t))

(***************************************************************************)
(* The cache alone, driven by any caller.                                  *)
(***************************************************************************)
CacheData == {[shape |-> "d1"], [shape |-> "d2"]}
OverrideChoices == {0, 1}
KeyArgs == {<<"NPM", "a">>, <<"NPM", "a|latest">>, <<"CARGO", "a">>}

Init ==
  /\ cache = <<>>
  /\ maxEntries \in 0..MaxEntriesBound
  /\ ttlOverrides = <<>>
  /\ now = 0
  /\ ret = [op |-> "new"]
  /\ fr = [pc |-> "idle"]
  /\ sel = [pc |-> "idle"]
  /\ calls = [c \in CallIds |-> Free]
  /\ resp = NoResponse

CacheGet(k) ==
  /\ ret' = [op |-> "get", key |-> k, value |-> CacheGetValue(cache, k, now)]
  /\ cache' = CacheGetStore(cache, k, now)
  /\ UNCHANGED <<maxEntries, ttlOverrides, now>>
  /\ UNCHANGED <<clientVars, toolVars>>

CacheSet(k, d, system) ==
  /\ cache' = CacheSetStore(cache, maxEntries, ttlOverrides, k, d, system, now)
  /\ ret' = [op |-> "set", key |-> k]
  /\ UNCHANGED <<maxEntries, ttlOverrides, now>>
  /\ UNCHANGED <<clientVars, toolVars>>

CacheClear ==
  /\ cache' = <<>>
  /\ ret' = [op |-> "clear"]
  /\ UNCHANGED <<maxEntries, ttlOverrides, now>>
  /\ UNCHANGED <<clientVars, toolVars>>

CacheCleanup ==
  /\ cache' = CacheCleanupStore(cache, now)
  /\ ret' = [op |-> "cleanup", removed |-> CacheCleanupCount(cache, now)]
  /\ UNCHANGED <<maxEntries, ttlOverrides, now>>
  /\ UNCHANGED <<clientVars, toolVars>>

SetTTLOverride(system, ttlMs) ==
  /\ ttlOverrides' =
       [s \in (DOMAIN ttlOverrides) \cup {system} |->
          IF s = system THEN ttlMs ELSE ttlOverrides[s]]
  /\ ret' = [op |-> "setTTLOverride"]
  /\ UNCHANGED <<cache, maxEntries, now>>
  /\ UNCHANGED <<clientVars, toolVars>>

Tick(t) ==
  /\ t > now
  /\ now' = t
  /\ ret' = [op |-> "tick"]
  /\ resp' = NoResponse
  /\ UNCHANGED <<cache, maxEntries, ttlOverrides, calls>>
  /\ UNCHANGED clientVars

CacheNext ==
  \/ \E a \in KeyArgs : CacheGet(packageKey(a[1], a[2]))
  \/ \E a \in KeyArgs, d \in CacheData : CacheSet(packageKey(a[1], a[2]), d, a[1])
  \/ CacheClear
  \/ CacheCleanup
  \/ \E s \in Systems, t \in OverrideChoices : SetTTLOverride(s, t)
  \/ \E t \in Times : Tick(t)

SpecCache == Init /\ [][CacheNext]_vars

(***************************************************************************)
(* Claims about the cache.                                                 *)
(***************************************************************************)

\* C1: for a cache constructed with any non-negative maxEntries, the number
\* of stored entries never exceeds maxEntries, whatever calls were made.
C1_CapacityInvariant == Len(cache) <= maxEntries

\* C2: a get returns the stored value exactly when the key has an entry and
\* now <= expiresAt, leaving the store as it is; otherwise it returns absent
\* and the entry, if there was one, is removed and nothing else is; a second
\* get right after it returns the same and changes nothing.
C2_GetContract ==
  [][ret'.op = "get" =>
       LET k == ret'.key
           live == IF MapHas(cache, k)
                     THEN now <= MapGet(cache, k).expiresAt
                     ELSE FALSE
       IN /\ live => ret'.value = MapGet(cache, k).data /\ cache' = cache
          /\ ~live => /\ ret'.value = Null
                      /\ ~MapHas(cache', k)
                      /\ cache' = SelectSeq(cache, LAMBDA e : e.key # k)
          /\ CacheGetValue(cache', k, now') = ret'.value
          /\ CacheGetStore(cache', k, now') = cache'
     ]_vars

\* A get that read an entry at the very instant of its expiry and returned
\* its value.
C2_Witness ==
  /\ ret.op = "get"
  /\ ret.value # Null
  /\ MapHas(cache, ret.key)
  /\ MapGet(cache, ret.key).expiresAt = now
  /\ now > 0

(***************************************************************************)
(* fetchWithRetry (src/depsdev/client.ts).  fr holds the locals of one     *)
(* call and the await it is suspended at: "fetching" (fetchWithTimeout),   *)
(* "sleeping" (the backoff sleep), and "returned" or "thrown" at its end.  *)
(* fr.requests counts the calls of fetchWithTimeout, fr.delays lists the   *)
(* delays slept, fr.history lists what each attempt met.                   *)
(***************************************************************************)
MAX_RETRIES == 3
BASE_DELAY_MS == 500
MAX_DELAY_MS == 8000
REQUEST_TIMEOUT_MS == 10000

\* lastStatus: undefined.
Undefined == -1

\* The statuses and bodies the registry answers with, the messages a failed
\* fetch carries, and the values Math.random() takes, in thousandths.
StatusChoices == {200, 400, 404, 408, 429, 500, 503}
BodyChoices == {"Not Found", "Unknown error"}
AbortMessage == "This operation was aborted"
NetworkMessages == {"fetch failed"}
RandomChoices == {0, 500, 999}

Min(a, b) == IF a <= b THEN a ELSE b
RECURSIVE Pow2(_)
Pow2(n) == IF n = 0 THEN 1 ELSE 2 * Pow2(n - 1)

getBackoffDelayFlat(attempt, random) ==
  LET exponentialDelay == Min(BASE_DELAY_MS, MAX_DELAY_MS)
      jitter == (random * 3 * exponentialDelay) \div 10000
  IN exponentialDelay + jitter

\* Math.random() * 0.3 * exponentialDelay, in whole milliseconds as
\* setTimeout takes it.
getBackoffDelay(attempt, random) ==
  LET exponentialDelay == Min(BASE_DELAY_MS * Pow2(attempt), MAX_DELAY_MS)
      jitter == (random * 3 * exponentialDelay) \div 10000
  IN exponentialDelay + jitter

isRetriableErrorAny4xx(status) ==
  IF status = Undefined \/ status = 0
    THEN TRUE
    ELSE status >= 400

isRetriableError(status) ==
  IF status = Undefined \/ status = 0
    THEN TRUE
    ELSE status = 408 \/ status = 429 \/ status >= 500

ResponseOk(status) == status >= 200 /\ status <= 299

DepsDevError(status, endpoint, message) ==
  [status |-> status, endpoint |-> endpoint, message |-> message]

FrStart(endpoint) ==
  [pc |-> "fetching", endpoint |-> endpoint, attempt |-> 0,
   lastStatus |-> Undefined, lastError |-> "", requests |-> 1,
   delays |-> <<>>, history |-> <<>>, result |-> Null]

FrThrow(r, error) == [r EXCEPT !.pc = "thrown", !.result = error]

FrThrowExhausted(r) ==
  FrThrow([r EXCEPT !.attempt = @ + 1],
          DepsDevError(
            IF r.lastStatus = Undefined THEN 0 ELSE r.lastStatus,
            r.endpoint,
            "Failed after " \o ToString(MAX_RETRIES) \o " attempts: "
              \o (IF r.lastError = "" THEN "Unknown error" ELSE r.lastError)))

FrAfterFailureWaitsLast(r, random) ==
  IF r.attempt < MAX_RETRIES
    THEN [r EXCEPT !.pc = "sleeping",
                   !.delays = Append(@, getBackoffDelay(r.attempt, random))]
    ELSE FrThrowExhausted(r)

\* The end of the loop body: the wait before the next attempt, or the
\* throw once the loop is over.
FrAfterFailure(r, random) ==
  IF r.attempt < MAX_RETRIES - 1
    THEN [r EXCEPT !.pc = "sleeping",
                   !.delays = Append(@, getBackoffDelay(r.attempt, random))]
    ELSE FrThrowExhausted(r)

FrCatchKeepsStatus(r, error, random) ==
  IF error.status # Undefined /\ error.status # 0
    THEN FrThrow(r, error)
    ELSE FrAfterFailure([r EXCEPT !.lastError = error.message], random)

\* The catch block: error.status is Undefined for a plain Error.
FrCatch(r, error, random) ==
  IF error.status # Undefined /\ error.status # 0
    THEN FrThrow(r, error)
    ELSE LET r1 == [r EXCEPT !.lastError = error.message,
                             !.lastStatus = Undefined]
         IN IF ~isRetriableError(r1.lastStatus)
              THEN FrThrow(r1, DepsDevError(0, r.endpoint,
                                 "Network error: " \o error.message))
              ELSE FrAfterFailure(r1, random)

FrOnResponseIgnoresFirstOk(r, status, body, random) ==
  IF ResponseOk(status) /\ r.attempt > 0
    THEN [r EXCEPT !.pc = "returned",
                   !.result = [status |-> status, body |-> body]]
    ELSE FrAfterFailure([r EXCEPT !.lastStatus = status,
                                  !.lastError = "HTTP " \o ToString(status)],
                        random)

\* The try block once fetchWithTimeout has resolved with a response.
FrOnResponse(r, status, body, random) ==
  IF ResponseOk(status)
    THEN [r EXCEPT !.pc = "returned",
                   !.result = [status |-> status, body |-> body]]
    ELSE LET r1 == [r EXCEPT !.lastStatus = status]
         IN IF ~isRetriableError(status)
              THEN FrCatch(r1,
                     DepsDevError(status, r.endpoint,
                       "HTTP " \o ToString(status) \o ": " \o body),
                     random)
              ELSE FrAfterFailure(
                     [r1 EXCEPT !.lastError = "HTTP " \o ToString(status)],
                     random)

FrOnWakeSameAttempt(r) ==
  [r EXCEPT !.pc = "fetching", !.requests = @ + 1]

\* The sleep is over: attempt++ and the next fetchWithTimeout.
FrOnWake(r) ==
  [r EXCEPT !.pc = "fetching", !.attempt = @ + 1, !.requests = @ + 1]

Record(r, outcome) == [r EXCEPT !.history = Append(fr.history, outcome)]

FetchStart ==
  /\ fr.pc = "idle"
  /\ fr' = FrStart("GET /systems/NPM/packages/a")
  /\ UNCHANGED <<cacheVars, sel, toolVars>>

AttemptResponds(status, body) ==
  /\ fr.pc = "fetching"
  /\ \E random \in RandomChoices :
       fr' = Record(FrOnResponse(fr, status, body, random), status)
  /\ UNCHANGED <<cacheVars, sel, toolVars>>

\* fetch rejects: the network failed.
AttemptFails(message) ==
  /\ fr.pc = "fetching"
  /\ \E random \in RandomChoices :
       fr' = Record(FrCatch(fr, [status |-> Undefined, message |-> message],
                            random), 0)
  /\ UNCHANGED <<cacheVars, sel, toolVars>>

\* fetchWithTimeout: the timer fires after REQUEST_TIMEOUT_MS, the
\* controller aborts the request and fetch rejects.
AttemptTimesOut ==
  /\ fr.pc = "fetching"
  /\ \E random \in RandomChoices :
       fr' = Record(FrCatch(fr, [status |-> Undefined,
                                 message |-> AbortMessage], random), 0)
  /\ UNCHANGED <<cacheVars, sel, toolVars>>

SleepEnds ==
  /\ fr.pc = "sleeping"
  /\ fr' = FrOnWake(fr)
  /\ UNCHANGED <<cacheVars, sel, toolVars>>

RetryNext ==
  \/ FetchStart
  \/ \E status \in StatusChoices, body \in BodyChoices :
       AttemptResponds(status, body)
  \/ \E message \in NetworkMessages : AttemptFails(message)
  \/ AttemptTimesOut
  \/ SleepEnds

SpecRetry == Init /\ [][RetryNext]_vars

\* Every attempt ends: fetch resolves or rejects, or the timer of
\* fetchWithTimeout aborts it after REQUEST_TIMEOUT_MS; every sleep ends
\* when its timer fires.
AttemptEnds ==
  \/ \E status \in StatusChoices, body \in BodyChoices :
       AttemptResponds(status, body)
  \/ \E message \in NetworkMessages : AttemptFails(message)
  \/ AttemptTimesOut
EveryAttemptEnds == WF_vars(AttemptEnds) /\ WF_vars(SleepEnds)
SpecRetryLive == Init /\ [][RetryNext]_vars /\ EveryAttemptEnds

(***************************************************************************)
(* Claims about fetchWithRetry.  fr.history holds, per attempt, the status *)
(* the registry answered with, or 0 when the attempt got no response.      *)
(***************************************************************************)
Ended == fr.pc \in {"returned", "thrown"}
Attempts == IF fr.pc = "idle" THEN 0 ELSE Len(fr.history)
Retryable(outcome) ==
  outcome = 0 \/ outcome = 408 \/ outcome = 429 \/ outcome >= 500
Success(outcome) == outcome >= 200 /\ outcome <= 299

\* C5: when every attempt is answered with 503, the call makes exactly 3
\* requests and waits exactly twice, once after the first and once after the
\* second attempt and not after the third, then fails with a RegistryError.
C5_Exhaustion503 ==
  (Attempts >= 1 /\ \A i \in 1..Attempts : fr.history[i] = 503) =>
    /\ Attempts <= 3
    /\ fr.requests <= 3
    /\ Attempts < 3 => /\ fr.pc \in {"sleeping", "fetching"}
                       /\ Len(fr.delays) = Attempts
                       /\ fr.requests =
                            IF fr.pc = "sleeping" THEN Attempts
                                                  ELSE Attempts + 1
    /\ Attempts = 3 => /\ fr.pc = "thrown"
                       /\ fr.requests = 3
                       /\ Len(fr.delays) = 2
                       /\ DOMAIN fr.result = {"status", "endpoint", "message"}

C5_Witness ==
  fr.pc = "thrown" /\ fr.history = <<503, 503, 503>> /\ Len(fr.delays) = 2

\* C6: an attempt answered with a non-2xx status other than 408, 429 or a
\* status >= 500 ends the call on that attempt with a RegistryError of that
\* status: no wait follows it and no further request is made.
C6_NonRetryableFailsAtOnce ==
  (Attempts >= 1 /\ ~Success(fr.history[Attempts])
                 /\ ~Retryable(fr.history[Attempts])) =>
    /\ fr.pc = "thrown"
    /\ fr.result.status = fr.history[Attempts]
    /\ fr.requests = Attempts
    /\ Len(fr.delays) = Attempts - 1

C6_Witness ==
  /\ fr.pc = "thrown"
  /\ fr.history = <<503, 404>>
  /\ fr.result.status = 404
  /\ Len(fr.delays) = 1

\* C7: when all 3 attempts fail with retryable outcomes, the terminal
\* RegistryError carries the outcome of the final attempt: its HTTP status,
\* or 0 when the final attempt got no response.
C7_TerminalStatus ==
  (Attempts = 3 /\ \A i \in 1..3 : Retryable(fr.history[i])) =>
    /\ fr.pc = "thrown"
    /\ fr.result.status = fr.history[3]

C7_Witness ==
  /\ fr.pc = "thrown"
  /\ fr.history = <<503, 429, 0>>
  /\ fr.result.status = 0

\* C8: the i-th wait of a call (after failed attempt i - 1) lasts d + jitter
\* with d = min(500 * 2^(i-1), 8000) and 0 <= jitter <= 0.3 * d, and every
\* wait is strictly longer than the one before it.
C8_BackoffDelays ==
  fr.pc # "idle" =>
    \A i \in 1..Len(fr.delays) :
      LET d == IF 500 * (2 ^ (i - 1)) <= 8000
                 THEN 500 * (2 ^ (i - 1)) ELSE 8000
          jitter == fr.delays[i] - d
      IN /\ 0 <= jitter
         /\ 10 * jitter <= 3 * d
         /\ i > 1 => fr.delays[i] > fr.delays[i - 1]

C8_Witness ==
  /\ fr.pc = "thrown"
  /\ Len(fr.history) = 3
  /\ fr.delays = <<649, 1000>>

(***************************************************************************)
(* Version strings are sequences of characters.  The semver package        *)
(* (parse, valid, rcompare; imported at src/depsdev/client.ts:3) is        *)
(* modelled by what it computes on them: the loose and the strict grammar, *)
(* the normalised version valid() returns, and the precedence order.       *)
(***************************************************************************)
DigitChars == <<"0", "1", "2", "3", "4", "5", "6", "7", "8", "9">>
LetterChars ==
  <<"a", "b", "c", "d", "e", "f", "g", "h", "i", "j", "k", "l", "m",
    "n", "o", "p", "q", "r", "s", "t", "u", "v", "w", "x", "y", "z">>
Range(f) == {f[i] : i \in DOMAIN f}
IndexOf(f, c) == CHOOSE i \in DOMAIN f : f[i] = c
IsDigit(c) == c \in Range(DigitChars)
IsIdChar(c) == c \in Range(DigitChars) \cup Range(LetterChars) \cup {"-"}
DigitValue(c) == IndexOf(DigitChars, c) - 1

\* UTF-16 code unit order (the < of JavaScript strings) and the order of the
\* default collation (localeCompare) on the characters of version strings.
CodeUnitOrder == <<" ", "+", "-", ".">> \o DigitChars \o <<"=">> \o LetterChars
CollationOrder == <<" ", "-", ".", "+", "=">> \o DigitChars \o LetterChars

RECURSIVE SeqCompare(_, _, _)
SeqCompare(order, a, b) ==
  IF a = <<>> /\ b = <<>> THEN 0
  ELSE IF a = <<>> THEN -1
  ELSE IF b = <<>> THEN 1
  ELSE IF Head(a) = Head(b) THEN SeqCompare(order, Tail(a), Tail(b))
  ELSE IF IndexOf(order, Head(a)) < IndexOf(order, Head(b)) THEN -1 ELSE 1

localeCompare(a, b) == SeqCompare(CollationOrder, a, b)

RECURSIVE ToNumber(_)
ToNumber(ds) ==
  IF ds = <<>> THEN 0
  ELSE 10 * ToNumber(SubSeq(ds, 1, Len(ds) - 1)) + DigitValue(ds[Len(ds)])

RECURSIVE NumToChars(_)
NumToChars(n) ==
  IF n < 10 THEN <<DigitChars[n + 1]>>
  ELSE NumToChars(n \div 10) \o <<DigitChars[(n % 10) + 1]>>

\* The length of the longest prefix of s made of characters of the set ok.
AllChars == Range(CodeUnitOrder)
RECURSIVE PrefixLen(_, _)
PrefixLen(s, ok) ==
  IF s = <<>> THEN 0
  ELSE IF Head(s) \notin ok THEN 0
  ELSE 1 + PrefixLen(Tail(s), ok)
Drop(s, n) == SubSeq(s, n + 1, Len(s))
Take(s, n) == SubSeq(s, 1, n)

\* s split at its dots.
RECURSIVE SplitDots(_)
SplitDots(s) ==
  LET n == PrefixLen(s, AllChars \ {"."})
  IN IF n = Len(s) THEN <<s>>
     ELSE <<Take(s, n)>> \o SplitDots(Drop(s, n + 1))

AllDigits(id) == id # <<>> /\ \A i \in 1..Len(id) : IsDigit(id[i])
NoLeadingZero(ds) == Len(ds) = 1 \/ ds[1] # "0"
\* An identifier of a prerelease or of a build: the loose grammar takes any
\* digits as a numeric identifier, the strict one none with a leading zero.
IdOk(id, loose) ==
  /\ id # <<>>
  /\ \A i \in 1..Len(id) : IsIdChar(id[i])
  /\ (AllDigits(id) /\ ~loose) => NoLeadingZero(id)
IdsOk(s, loose) ==
  LET ids == SplitDots(s) IN \A i \in 1..Len(ids) : IdOk(ids[i], loose)

NoParse == [ok |-> FALSE]

\* What follows the patch number: the prerelease (after a hyphen the loose
\* grammar lets out) and the build.  The identifiers of the prerelease, or
\* NoParse.
ParseRest(rest, loose) ==
  LET n == PrefixLen(rest, AllChars \ {"+"})
      pre == Take(rest, n)
      buildOk == n = Len(rest) \/ IdsOk(Drop(rest, n + 1), TRUE)
  IN IF ~buildOk THEN NoParse
     ELSE IF pre = <<>> THEN [ok |-> TRUE, ids |-> <<>>]
     ELSE IF Head(pre) = "-" /\ IdsOk(Tail(pre), loose)
       THEN [ok |-> TRUE, ids |-> SplitDots(Tail(pre))]
     ELSE IF loose /\ IdsOk(pre, loose)
       THEN [ok |-> TRUE, ids |-> SplitDots(pre)]
     ELSE NoParse

\* A prerelease identifier as SemVer keeps it: a number when all digits.
PreId(id) ==
  IF AllDigits(id) THEN [num |-> TRUE, n |-> ToNumber(id), s |-> <<>>]
                   ELSE [num |-> FALSE, n |-> 0, s |-> id]
PreIdChars(p) == IF p.num THEN NumToChars(p.n) ELSE p.s

RECURSIVE JoinDots(_)
JoinDots(ps) ==
  IF ps = <<>> THEN <<>>
  ELSE IF Len(ps) = 1 THEN PreIdChars(ps[1])
  ELSE PreIdChars(ps[1]) \o <<".">> \o JoinDots(Tail(ps))

\* SemVer.format(): the normalised version.
Format(major, minor, patch, prerelease) ==
  NumToChars(major) \o <<".">> \o NumToChars(minor) \o <<".">>
    \o NumToChars(patch)
    \o (IF prerelease = <<>> THEN <<>> ELSE <<"-">> \o JoinDots(prerelease))

\* The patch digits and what follows them: the longest run of digits for
\* which the rest parses (the regular expression backtracks into it).
RECURSIVE ParsePatch(_, _, _, _, _)
ParsePatch(major, minor, s, k, loose) ==
  IF k = 0 THEN NoParse
  ELSE LET rest == ParseRest(Drop(s, k), loose)
       IN IF rest.ok /\ (loose \/ NoLeadingZero(Take(s, k)))
            THEN LET pre == [i \in 1..Len(rest.ids) |-> PreId(rest.ids[i])]
                     patch == ToNumber(Take(s, k))
                 IN [ok |-> TRUE, major |-> major, minor |-> minor,
                     patch |-> patch, prerelease |-> pre,
                     version |-> Format(major, minor, patch, pre)]
            ELSE IF loose THEN ParsePatch(major, minor, s, k - 1, loose)
            ELSE NoParse

\* semver.parse(version, { loose }): a SemVer, or NoParse for null.
parseSemver(version, loose) ==
  LET lead == IF loose
                THEN PrefixLen(version, {"v", "=", " "})
                ELSE IF version # <<>> /\ Head(version) = "v" THEN 1 ELSE 0
      s1 == Drop(version, lead)
      n1 == PrefixLen(s1, Range(DigitChars))
      s2 == Drop(s1, n1 + 1)
      n2 == PrefixLen(s2, Range(DigitChars))
      s3 == Drop(s2, n2 + 1)
      n3 == PrefixLen(s3, Range(DigitChars))
  IN IF /\ n1 > 0 /\ Len(s1) > n1 /\ s1[n1 + 1] = "."
        /\ n2 > 0 /\ Len(s2) > n2 /\ s2[n2 + 1] = "."
        /\ n3 > 0
        /\ loose \/ (NoLeadingZero(Take(s1, n1)) /\ NoLeadingZero(Take(s2, n2)))
       THEN ParsePatch(ToNumber(Take(s1, n1)), ToNumber(Take(s2, n2)),
                       s3, n3, loose)
       ELSE NoParse

\* The version strings the registry of the model lists.
V_1_0_0 == <<"1", ".", "0", ".", "0">>
V_v1_0_0 == <<"v", "1", ".", "0", ".", "0">>
V_1_0_0_rc == <<"1", ".", "0", ".", "0", "-", "r", "c">>
V_2_0_0_alpha == <<"2", ".", "0", ".", "0", "-", "a", "l", "p", "h", "a">>
V_3_0_0b1 == <<"3", ".", "0", ".", "0", "b", "1">>
V_1_0 == <<"1", ".", "0">>
V_1_1 == <<"1", ".", "1">>
V_1_b == <<"1", "+", "b">>
VersionStrings ==
  {V_1_0_0, V_v1_0_0, V_1_0_0_rc, V_2_0_0_alpha, V_3_0_0b1, V_1_0, V_1_1,
   V_1_b}

\* parseSemver(version, { loose: true }), as the client calls it.
parseLoose(version) == parseSemver(version, TRUE)

\* semver.valid(version, { loose: true }): the normalised version, or <<>>
\* for null.
valid(version) ==
  LET sv == parseLoose(version) IN IF sv.ok THEN sv.version ELSE <<>>

Sign(n) == IF n < 0 THEN -1 ELSE IF n > 0 THEN 1 ELSE 0

compareIdentifiers(a, b) ==
  IF a.num /\ b.num THEN Sign(a.n - b.n)
  ELSE IF a.num THEN -1
  ELSE IF b.num THEN 1
  ELSE SeqCompare(CodeUnitOrder, a.s, b.s)

RECURSIVE comparePre(_, _)
comparePre(a, b) ==
  IF a = <<>> /\ b = <<>> THEN 0
  ELSE IF b = <<>> THEN 1
  ELSE IF a = <<>> THEN -1
  ELSE IF compareIdentifiers(Head(a), Head(b)) # 0
    THEN compareIdentifiers(Head(a), Head(b))
  ELSE comparePre(Tail(a), Tail(b))

\* SemVer.compare: the main version, then the prerelease (a version with a
\* prerelease comes before the same version without).
compareSemVer(a, b) ==
  IF a.major # b.major THEN Sign(a.major - b.major)
  ELSE IF a.minor # b.minor THEN Sign(a.minor - b.minor)
  ELSE IF a.patch # b.patch THEN Sign(a.patch - b.patch)
  ELSE IF a.prerelease # <<>> /\ b.prerelease = <<>> THEN -1
  ELSE IF a.prerelease = <<>> /\ b.prerelease # <<>> THEN 1
  ELSE comparePre(a.prerelease, b.prerelease)

\* semver.rcompare(a, b) on two strings, read by the strict grammar.
rcompare(a, b) == compareSemVer(parseSemver(b, FALSE), parseSemver(a, FALSE))

(***************************************************************************)
(* DepsDevClient.getLatestVersion (src/depsdev/client.ts) on the list that *)
(* getPackageVersions fetched.  A result is [ok |-> TRUE, value |-> ...]   *)
(* or [ok |-> FALSE, error |-> ...] for a throw.                           *)
(***************************************************************************)
\* Array.prototype.find: the index of the first element, or 0.
FindDefault(versions) ==
  IF \E i \in 1..Len(versions) : versions[i].isDefault
    THEN CHOOSE i \in 1..Len(versions) :
           /\ versions[i].isDefault
           /\ \A j \in 1..(i - 1) : ~versions[j].isDefault
    ELSE 0

NotPrereleaseStrict(v) ==
  LET sv == parseSemver(v.version, FALSE)
  IN ~sv.ok \/ sv.prerelease = <<>>

NotPrerelease(v) ==
  LET sv == parseLoose(v.version)
  IN ~sv.ok \/ sv.prerelease = <<>>

CompareVersionsSemverFirstBothWays(a, b) ==
  LET va == valid(a.version)
      vb == valid(b.version)
  IN IF va # <<>> /\ vb # <<>> THEN rcompare(va, vb)
     ELSE IF va # <<>> THEN -1
     ELSE IF vb # <<>> THEN -1
     ELSE localeCompare(b.version, a.version)

\* The comparator handed to sort.
CompareVersions(a, b) ==
  LET va == valid(a.version)
      vb == valid(b.version)
  IN IF va # <<>> /\ vb # <<>> THEN rcompare(va, vb)
     ELSE IF va # <<>> THEN -1
     ELSE IF vb # <<>> THEN 1
     ELSE localeCompare(b.version, a.version)

\* Array.prototype.sort: a stable sort, each element put after the elements
\* it does not come before.
RECURSIVE InsertSorted(_, _)
InsertSorted(sorted, x) ==
  IF sorted = <<>> THEN <<x>>
  ELSE IF CompareVersions(x, Head(sorted)) < 0 THEN <<x>> \o sorted
  ELSE <<Head(sorted)>> \o InsertSorted(Tail(sorted), x)
RECURSIVE Sort(_)
Sort(seq) ==
  IF seq = <<>> THEN <<>>
  ELSE InsertSorted(Sort(SubSeq(seq, 1, Len(seq) - 1)), seq[Len(seq)])

CandidatesKeepDeprecated(versions, includePrerelease) ==
  IF includePrerelease THEN versions ELSE SelectSeq(versions, NotPrerelease)

Candidates(versions, includePrerelease) ==
  LET live == SelectSeq(versions, LAMBDA v : ~v.isDeprecated)
  IN IF includePrerelease THEN live ELSE SelectSeq(live, NotPrerelease)

getLatestVersionAnyDefault(versions, includePrerelease, endpoint) ==
  IF Len(versions) = 0
    THEN [ok |-> FALSE,
          error |-> DepsDevError(404, endpoint, "No versions found for package")]
  ELSE LET d == FindDefault(versions)
       IN IF d # 0
            THEN [ok |-> TRUE,
                  value |-> [version |-> versions[d].version,
                             publishedAt |-> versions[d].publishedAt,
                             isDefault |-> TRUE]]
            ELSE LET sortedVersions ==
                       Sort(Candidates(versions, includePrerelease))
                 IN IF Len(sortedVersions) = 0
                      THEN [ok |-> FALSE,
                            error |-> DepsDevError(404, endpoint,
                                        "No non-deprecated versions found")]
                      ELSE [ok |-> TRUE,
                            value |->
                              [version |-> sortedVersions[1].version,
                               publishedAt |-> sortedVersions[1].publishedAt,
                               isDefault |-> sortedVersions[1].isDefault]]

getLatestVersion(versions, includePrerelease, endpoint) ==
  IF Len(versions) = 0
    THEN [ok |-> FALSE,
          error |-> DepsDevError(404, endpoint, "No versions found for package")]
  ELSE LET d == FindDefault(versions)
       IN IF d # 0 /\ ~versions[d].isDeprecated
            THEN [ok |-> TRUE,
                  value |-> [version |-> versions[d].version,
                             publishedAt |-> versions[d].publishedAt,
                             isDefault |-> TRUE]]
            ELSE LET sortedVersions ==
                       Sort(Candidates(versions, includePrerelease))
                 IN IF Len(sortedVersions) = 0
                      THEN [ok |-> FALSE,
                            error |-> DepsDevError(404, endpoint,
                                        "No non-deprecated versions found")]
                      ELSE [ok |-> TRUE,
                            value |->
                              [version |-> sortedVersions[1].version,
                               publishedAt |-> sortedVersions[1].publishedAt,
                               isDefault |-> sortedVersions[1].isDefault]]

(***************************************************************************)
(* The selection alone, on every list of up to MaxVersions versions with   *)
(* distinct version strings, as a registry lists them.                     *)
(***************************************************************************)
PublishedAt(version) == <<"p">> \o version

\* A version as getPackageVersions maps it from the registry's answer.
VersionRecords ==
  {[version |-> v, publishedAt |-> PublishedAt(v),
    isDefault |-> d, isDeprecated |-> x] :
     v \in VersionStrings, d \in BOOLEAN, x \in BOOLEAN}
Distinct(l) ==
  \A i \in 1..Len(l), j \in 1..Len(l) : i # j => l[i].version # l[j].version
VersionLists ==
  UNION {{l \in [1..n -> VersionRecords] : Distinct(l)} : n \in 0..MaxVersions}

SelectEndpoint == "GET /systems/NPM/packages/a"

SelectInit ==
  /\ cache = <<>>
  /\ maxEntries = MaxEntriesBound
  /\ ttlOverrides = <<>>
  /\ now = 0
  /\ ret = [op |-> "new"]
  /\ fr = [pc |-> "idle"]
  /\ \E l \in VersionLists, p \in BOOLEAN :
       sel = [pc |-> "called", versions |-> l, includePrerelease |-> p]
  /\ calls = [c \in CallIds |-> Free]
  /\ resp = NoResponse

Resolve ==
  /\ sel.pc = "called"
  /\ sel' = [sel EXCEPT !.pc = "done"] @@
            [result |-> getLatestVersion(sel.versions, sel.includePrerelease,
                                         SelectEndpoint)]
  /\ UNCHANGED <<cacheVars, fr, toolVars>>

SelectNext == Resolve

SpecSelect == SelectInit /\ [][SelectNext]_vars

(***************************************************************************)
(* Claims about the selection.  The listed version strings are classified  *)
(* by hand, as the loose grammar of semver reads them: their precedence    *)
(* rank, 0 for a string that is no semantic version, and whether they      *)
(* carry a prerelease.                                                     *)
(***************************************************************************)
Rank(version) ==
  CASE version = V_1_0_0_rc -> 1
    [] version = V_1_0_0 -> 2
    [] version = V_v1_0_0 -> 2
    [] version = V_2_0_0_alpha -> 3
    [] version = V_3_0_0b1 -> 4
    [] OTHER -> 0
IsSemver(version) == Rank(version) > 0
IsPrerelease(version) == version \in {V_1_0_0_rc, V_2_0_0_alpha, V_3_0_0b1}

Selected == sel.pc = "done"
Listed == 1..Len(sel.versions)
Live(i) == ~sel.versions[i].isDeprecated
\* The default fast path returns: the first version marked isDefault is not
\* deprecated.
FastPath ==
  \E i \in Listed :
    /\ sel.versions[i].isDefault
    /\ Live(i)
    /\ \A j \in 1..(i - 1) : ~sel.versions[j].isDefault
Plain(version) ==
  [version |-> version, publishedAt |-> PublishedAt(version),
   isDefault |-> FALSE, isDeprecated |-> FALSE]

\* C9: whenever the fetched list holds a version with isDefault true and
\* isDeprecated false, getLatestVersion returns such a version, whatever
\* the flag and whatever else the list holds.
C9_DefaultReturned ==
  (Selected /\ \E i \in Listed : sel.versions[i].isDefault /\ Live(i)) =>
    /\ sel.result.ok
    /\ \E i \in Listed :
         /\ sel.versions[i].isDefault
         /\ Live(i)
         /\ sel.result.value.version = sel.versions[i].version

\* C10: off the default fast path, with includePrerelease false the version
\* selected is never a prerelease, and a live version that is no semantic
\* version stays a candidate (the call succeeds, and selects one of them
\* when no live release is listed); with includePrerelease true a live
\* prerelease of the highest precedence among the live semantic versions is
\* the one selected.  [1.0.0, 2.0.0-alpha] gives 1.0.0 and 2.0.0-alpha.
C10_PrereleaseFilter ==
  (Selected /\ ~FastPath) =>
    /\ (~sel.includePrerelease /\ sel.result.ok) =>
         ~IsPrerelease(sel.result.value.version)
    /\ (~sel.includePrerelease
          /\ \E i \in Listed : Live(i) /\ ~IsSemver(sel.versions[i].version)) =>
         /\ sel.result.ok
         /\ (\A i \in Listed :
               (Live(i) /\ IsSemver(sel.versions[i].version)) =>
                 IsPrerelease(sel.versions[i].version)) =>
              ~IsSemver(sel.result.value.version)
    /\ sel.includePrerelease =>
         \A i \in Listed :
           (/\ Live(i)
            /\ IsPrerelease(sel.versions[i].version)
            /\ \A j \in Listed \ {i} :
                 Live(j) => Rank(sel.versions[j].version)
                              < Rank(sel.versions[i].version)) =>
             /\ sel.result.ok
             /\ sel.result.value.version = sel.versions[i].version
    /\ sel.versions = <<Plain(V_1_0_0), Plain(V_2_0_0_alpha)>> =>
         /\ sel.result.ok
         /\ sel.result.value.version =
              IF sel.includePrerelease THEN V_2_0_0_alpha ELSE V_1_0_0

\* The spec's example with includePrerelease true: the prerelease wins.
C10_Witness ==
  /\ Selected
  /\ sel.versions = <<Plain(V_1_0_0), Plain(V_2_0_0_alpha)>>
  /\ sel.includePrerelease
  /\ sel.result.ok
  /\ sel.result.value.version = V_2_0_0_alpha

\* The strings that are no semantic versions, ranked by hand in
\* lexicographic order, character by character by code unit:
\* "1+b" < "1.0" < "1.1".
LexRank(version) ==
  CASE version = V_1_b -> 1
    [] version = V_1_0 -> 2
    [] version = V_1_1 -> 3
    [] OTHER -> 0
\* The order of the sort as stated: x ranks strictly above y.
RanksAbove(x, y) ==
  \/ IsSemver(x) /\ ~IsSemver(y)
  \/ IsSemver(x) /\ IsSemver(y) /\ Rank(x) > Rank(y)
  \/ ~IsSemver(x) /\ ~IsSemver(y) /\ LexRank(x) > LexRank(y)
\* The candidates left by the filter.
Candidate(i) ==
  /\ Live(i)
  /\ sel.includePrerelease \/ ~IsPrerelease(sel.versions[i].version)

\* C11: off the default fast path, the version returned is a greatest
\* candidate: no candidate is a semantic version when it is none, none has
\* a higher semver precedence, and among strings that are no semantic
\* versions none is lexicographically greater.
C11_GreatestCandidate ==
  (Selected /\ ~FastPath /\ sel.result.ok) =>
    \A i \in Listed :
      Candidate(i) =>
        ~RanksAbove(sel.versions[i].version, sel.result.value.version)

NotFound == ~sel.result.ok /\ sel.result.error.status = 404
ReturnsListed ==
  /\ sel.result.ok
  /\ \E i \in Listed : sel.result.value.version = sel.versions[i].version

RegistryVersions == <<Plain(V_1_0_0), Plain(V_2_0_0_alpha)>>
RegistryBehaviours ==
  {[attempts |-> <<200>>, hasKey |-> TRUE, versions |-> RegistryVersions],
   [attempts |-> <<200>>, hasKey |-> FALSE, versions |-> RegistryVersions],
   [attempts |-> <<404>>, hasKey |-> FALSE, versions |-> <<>>],
   [attempts |-> <<503, 503, 503, 200>>, hasKey |-> FALSE,
    versions |-> RegistryVersions]}

Endpoint(system, name) == "GET /systems/" \o system \o "/packages/" \o name

\* The answer's JSON: the registry echoes the package key when it sends one.
RegistryData(system, name, b) ==
  [packageKey |-> IF b.hasKey THEN [system |-> system, name |-> name]
                  ELSE Null,
   versions |-> b.versions]

\* The value of a singleton set: its use gives a name to a value that
\* has been computed once.
The(S) == CHOOSE x \in S : TRUE

\* fetchWithRetry run to its end against the attempts' outcomes.
RECURSIVE FrRun(_, _)
FrRun(r0, outcomes) ==
  The({IF r.pc = "sleeping" THEN FrRun(FrOnWake(r), outcomes)
       ELSE IF r.pc # "fetching" \/ outcomes = <<>> THEN r
       ELSE FrRun(IF Head(outcomes) = 0
                    THEN FrCatch(r, [status |-> Undefined,
                                     message |-> "fetch failed"], 0)
                    ELSE FrOnResponse(r, Head(outcomes), "Not Found", 0),
                  Tail(outcomes)) : r \in {r0}})

\* DepsDevClient.getPackageVersions.
clientGetPackageVersions(system, name, b) ==
  The({IF r.pc = "returned"
         THEN [ok |-> TRUE,
               value |->
                 [system |-> IF data.packageKey # Null
                               THEN data.packageKey.system ELSE system,
                  name |-> IF data.packageKey # Null
                             THEN data.packageKey.name ELSE name,
                  versions |-> data.versions],
               requests |-> r.requests]
         ELSE [ok |-> FALSE, error |-> r.result, requests |-> r.requests] :
       r \in {FrRun(FrStart(Endpoint(system, name)), b.attempts)},
       data \in {RegistryData(system, name, b)}})

\* DepsDevClient.getLatestVersion: the fetch, then the selection.
clientGetLatestVersion(system, name, includePrerelease, b) ==
  The({IF ~versionsData.ok THEN versionsData
       ELSE getLatestVersion(versionsData.value.versions, includePrerelease,
                             Endpoint(system, name))
              @@ [requests |-> versionsData.requests] :
       versionsData \in {clientGetPackageVersions(system, name, b)}})

clientBatchItemUnknownError(pkg, outcome) ==
  IF outcome.ok
    THEN [system |-> pkg.system, name |-> pkg.name, result |-> outcome.value]
    ELSE [system |-> pkg.system, name |-> pkg.name, error |-> "Unknown error"]

\* One element of the client's batch methods: the lookup's value, or the
\* message of what it threw.
clientBatchItem(pkg, outcome) ==
  IF outcome.ok
    THEN [system |-> pkg.system, name |-> pkg.name, result |-> outcome.value]
    ELSE [system |-> pkg.system, name |-> pkg.name,
          error |-> outcome.error.message]

(***************************************************************************)
(* VersionTools (src/tools/index.ts).  A call runs from its start to its   *)
(* await in one step, and from the settling of its last lookup to its      *)
(* return in one step; calls overlap only at the await.                    *)
(***************************************************************************)
VersionListOps == {"getPackageVersions", "getPackageVersionsBatch"}
LatestOps == {"getLatestVersion", "getLatestVersionsBatch"}
BatchOps == {"getPackageVersionsBatch", "getLatestVersionsBatch"}

ToolPackages ==
  {[system |-> "NPM", name |-> "a", includePrerelease |-> FALSE],
   [system |-> "NPM", name |-> "a|latest", includePrerelease |-> FALSE]}
LatestRequests ==
  {[p EXCEPT !.includePrerelease = f] : p \in ToolPackages, f \in BOOLEAN}
Batches == UNION {[1..n -> ToolPackages] : n \in 0..MaxBatch}

\* The cacheKey each operation computes for a package.
ToolKey(op, pkg) ==
  CASE op = "getPackageVersions" -> packageKey(pkg.system, pkg.name)
    [] op = "getLatestVersion" ->
         packageKey(pkg.system, pkg.name \o "|latest")
    [] op = "getPackageVersionsBatch" -> packageKey(pkg.system, pkg.name)
    [] op = "getLatestVersionsBatch" -> packageKey(pkg.system, pkg.name)

\* The lookup each operation awaits for a package.
ClientLookup(op, pkg, b) ==
  IF op \in VersionListOps
    THEN clientGetPackageVersions(pkg.system, pkg.name, b)
    ELSE clientGetLatestVersion(pkg.system, pkg.name,
                                pkg.includePrerelease, b)

Content(value) == [isError |-> FALSE, structuredContent |-> value]
formatErrorStatus500(error) ==
  [isError |-> TRUE, text |-> error.message,
   meta |-> [status |-> 500, endpoint |-> error.endpoint]]
formatError(error) ==
  [isError |-> TRUE, text |-> error.message,
   meta |-> [status |-> error.status, endpoint |-> error.endpoint]]

Pending == [state |-> "pending"]
Settled(outcome) == [state |-> "settled", outcome |-> outcome]
Awaiting(op, args, toFetch, results, hits) ==
  [pc |-> "awaiting", op |-> op, args |-> args, toFetch |-> toFetch,
   lookups |-> [i \in 1..Len(toFetch) |-> Pending],
   results |-> results, hits |-> hits]
\* A call's return: its response, and the registry lookups it has awaited.
Returned(c, op, args, fetched, response) ==
  [call |-> c, op |-> op, args |-> args, fetched |-> fetched,
   response |-> response]
Fetched(toFetch, lookups) ==
  [i \in 1..Len(toFetch) |->
     [package |-> toFetch[i], outcome |-> lookups[i].outcome]]

RECURSIVE ProbeLoopUnshifts(_, _, _, _, _)
ProbeLoopUnshifts(st0, op, packages, i, t) ==
  IF i > Len(packages) THEN st0
  ELSE The({ProbeLoopUnshifts(
              IF cached # Null
                THEN [store |-> CacheGetStore(st.store, cacheKey, t),
                      results |-> <<[system |-> pkg.system,
                                     name |-> pkg.name,
                                     cached |-> TRUE, result |-> cached]>>
                                    \o st.results,
                      hits |-> st.hits + 1, misses |-> st.misses]
                ELSE [st EXCEPT !.store = CacheGetStore(@, cacheKey, t),
                                !.misses = @ + 1],
              op, packages, i + 1, t) :
            st \in {st0}, pkg \in {packages[i]},
            cacheKey \in {ToolKey(op, packages[i])},
            cached \in {CacheGetValue(st0.store,
                                      ToolKey(op, packages[i]), t)}})

\* The first loop of a batch: one cache.get per package; a hit is pushed
\* to results, a miss is counted.
RECURSIVE ProbeLoop(_, _, _, _, _)
ProbeLoop(st0, op, packages, i, t) ==
  IF i > Len(packages) THEN st0
  ELSE The({ProbeLoop(
              IF cached # Null
                THEN [store |-> CacheGetStore(st.store, cacheKey, t),
                      results |-> Append(st.results,
                                    [system |-> pkg.system,
                                     name |-> pkg.name,
                                     cached |-> TRUE, result |-> cached]),
                      hits |-> st.hits + 1, misses |-> st.misses]
                ELSE [st EXCEPT !.store = CacheGetStore(@, cacheKey, t),
                                !.misses = @ + 1],
              op, packages, i + 1, t) :
            st \in {st0}, pkg \in {packages[i]},
            cacheKey \in {ToolKey(op, packages[i])},
            cached \in {CacheGetValue(st0.store,
                                      ToolKey(op, packages[i]), t)}})

RECURSIVE FilterLoopKeepsAll(_, _, _, _, _)
FilterLoopKeepsAll(st0, op, packages, i, t) ==
  IF i > Len(packages) THEN st0
  ELSE The({FilterLoopKeepsAll(
              [store |-> CacheGetStore(st.store, cacheKey, t),
               toFetch |-> Append(st.toFetch, pkg)],
              op, packages, i + 1, t) :
            st \in {st0}, pkg \in {packages[i]},
            cacheKey \in {ToolKey(op, packages[i])}})

\* packages.filter(pkg => !cache.get(key)): a second cache.get per package.
RECURSIVE FilterLoop(_, _, _, _, _)
FilterLoop(st0, op, packages, i, t) ==
  IF i > Len(packages) THEN st0
  ELSE The({FilterLoop(
              [store |-> CacheGetStore(st.store, cacheKey, t),
               toFetch |-> IF cached = Null THEN Append(st.toFetch, pkg)
                           ELSE st.toFetch],
              op, packages, i + 1, t) :
            st \in {st0}, pkg \in {packages[i]},
            cacheKey \in {ToolKey(op, packages[i])},
            cached \in {CacheGetValue(st0.store,
                                      ToolKey(op, packages[i]), t)}})

RECURSIVE MergeLoopWritesErrors(_, _, _, _, _, _, _, _)
MergeLoopWritesErrors(st0, op, toFetch, fetchResults, i, max, ov, t) ==
  IF i > Len(fetchResults) THEN st0
  ELSE LET item == fetchResults[i]
           hasResult == "result" \in DOMAIN item
       IN The({MergeLoopWritesErrors(
                 [store |-> CacheSetStore(st.store, max, ov,
                              ToolKey(op, item),
                              IF hasResult THEN item.result ELSE item.error,
                              item.system, t),
                  results |-> Append(st.results,
                                [system |-> item.system, name |-> item.name,
                                 cached |-> FALSE] @@
                                (IF hasResult THEN [result |-> item.result]
                                 ELSE [error |-> item.error]))],
                 op, toFetch, fetchResults, i + 1, max, ov, t) :
               st \in {st0}})

\* The loop over fetchResults: a result is written to the cache, every
\* item is pushed to results.
RECURSIVE MergeLoop(_, _, _, _, _, _, _, _)
MergeLoop(st0, op, toFetch, fetchResults, i, max, ov, t) ==
  IF i > Len(fetchResults) THEN st0
  ELSE LET item == fetchResults[i]
           hasResult == "result" \in DOMAIN item
           \* getLatestVersionsBatch writes only when toFetch.find finds
           \* the item's package.
           found == \/ op # "getLatestVersionsBatch"
                    \/ \E j \in 1..Len(toFetch) :
                         /\ toFetch[j].system = item.system
                         /\ toFetch[j].name = item.name
       IN The({MergeLoop(
                 [store |-> IF hasResult /\ found
                              THEN CacheSetStore(st.store, max, ov,
                                     ToolKey(op, item), item.result,
                                     item.system, t)
                              ELSE st.store,
                  results |-> Append(st.results,
                                [system |-> item.system, name |-> item.name,
                                 cached |-> FALSE] @@
                                (IF hasResult THEN [result |-> item.result]
                                 ELSE [error |-> item.error]))],
                 op, toFetch, fetchResults, i + 1, max, ov, t) :
               st \in {st0}})

Count(results, field) ==
  Cardinality({i \in 1..Len(results) : field \in DOMAIN results[i]})
Summary(packages, results, hits) ==
  [total |-> Len(packages), successful |-> Count(results, "result"),
   failed |-> Count(results, "error"), cached |-> hits]
BatchContent(packages, results, hits) ==
  Content([results |-> results,
           summary |-> Summary(packages, results, hits)])

SingleEndSkipsSet(call, outcome, store, max, ov, t) ==
  IF outcome.ok
    THEN [store |-> store, response |-> Content(outcome.value)]
    ELSE [store |-> store, response |-> formatError(outcome.error)]

\* A single-item call once its lookup has settled: the cache.set and the
\* return, or the catch.
SingleEnd(call, outcome, store, max, ov, t) ==
  IF outcome.ok
    THEN [store |-> CacheSetStore(store, max, ov,
                      ToolKey(call.op, call.args), outcome.value,
                      call.args.system, t),
          response |-> Content(outcome.value)]
    ELSE [store |-> store, response |-> formatError(outcome.error)]

\* A batch call once Promise.allSettled has resolved.
BatchEnd(call, lookups, store, max, ov, t) ==
  The({[store |-> merged.store,
        response |-> BatchContent(call.args, merged.results, call.hits)] :
       merged \in
         {The({MergeLoop([store |-> store, results |-> call.results],
                         call.op, call.toFetch, fetchResults, 1, max, ov, t) :
               fetchResults \in
                 {[i \in 1..Len(call.toFetch) |->
                     clientBatchItem(call.toFetch[i],
                                     lookups[i].outcome)]}})}})

\* formatError on a plain Error: the message alone.
formatPlainError(message) == [isError |-> TRUE, text |-> message]

\* generatePurl (tools): the version absent from a request, the requests,
\* and the PURL, kept as the pieces the template joins.
NoVersion == <<>>
PurlPackages ==
  LatestRequests \cup
    {[system |-> sys, name |-> "a", includePrerelease |-> FALSE] :
       sys \in {"GO", "RUBYGEMS"}}
PurlRequests ==
  {p @@ [version |-> v] : p \in PurlPackages, v \in {NoVersion, V_1_0_0}}
purlSystemMap(system) ==
  CASE system = "NPM" -> "npm"
    [] system = "CARGO" -> "cargo"
    [] system = "PYPI" -> "pypi"
    [] system = "GO" -> "golang"
    [] system = "RUBYGEMS" -> "gem"
    [] system = "NUGET" -> "nuget"
PurlAlwaysFetched(args, finalVersion, source) ==
  Content([purl |-> <<"pkg:", purlSystemMap(args.system), "/", args.name,
                      "@">> \o finalVersion,
           system |-> args.system, name |-> args.name,
           version |-> finalVersion, source |-> "latest_fetched"])
Purl(args, finalVersion, source) ==
  Content([purl |-> <<"pkg:", purlSystemMap(args.system), "/", args.name,
                      "@">> \o finalVersion,
           system |-> args.system, name |-> args.name,
           version |-> finalVersion, source |-> source])
\* generatePurl once this.getLatestVersion has returned latest.
PurlFromLatest(args, latest) ==
  IF latest.isError
    THEN formatPlainError("Failed to resolve latest version")
  ELSE IF "version" \notin DOMAIN latest.structuredContent
    THEN formatPlainError("No version available")
  ELSE IF latest.structuredContent.version = NoVersion
    THEN formatPlainError("No version available")
  ELSE Purl(args, latest.structuredContent.version, "latest_fetched")
\* The inner getLatestVersion once its lookup has settled, then the PURL.
PurlEnd(call, outcome, store, max, ov, t) ==
  The({[store |-> inner.store,
        response |-> PurlFromLatest(call.args, inner.response)] :
       inner \in {SingleEnd([call EXCEPT !.op = "getLatestVersion"],
                            outcome, store, max, ov, t)}})

\* The slot a new call takes: the overlapping calls are interchangeable,
\* so it is the lowest free one (0 when MaxCalls calls are in flight).
FreeSlot ==
  IF \E c \in DOMAIN calls : calls[c] = Free
    THEN CHOOSE c \in DOMAIN calls :
           calls[c] = Free /\ \A d \in DOMAIN calls : calls[d] = Free => c <= d
    ELSE 0

\* The instants of the tool layer's clock: the start, and one at which
\* whatever was cached at the start has expired.
ToolTimes == {0, DEFAULT_TTL_MS("NPM") + 1}

ToolsInit ==
  /\ cache = <<>>
  /\ maxEntries \in 1..MaxEntriesBound
  /\ ttlOverrides = <<>>
  /\ now = 0
  /\ ret = [op |-> "new"]
  /\ fr = [pc |-> "idle"]
  /\ sel = [pc |-> "idle"]
  /\ calls = [c \in CallIds |-> Free]
  /\ resp = NoResponse

\* A single-item call up to its return on a hit or its await on a miss.
SingleStart(c, op, args) ==
  /\ LET cacheKey == ToolKey(op, args)
         cached == CacheGetValue(cache, cacheKey, now)
     IN /\ cache' = CacheGetStore(cache, cacheKey, now)
        /\ IF cached # Null
             THEN /\ resp' = Returned(c, op, args, <<>>, Content(cached))
                  /\ UNCHANGED calls
             ELSE /\ calls' = [calls EXCEPT
                                 ![c] = Awaiting(op, args, <<args>>, <<>>, 0)]
                  /\ resp' = NoResponse
  /\ UNCHANGED <<maxEntries, ttlOverrides, now, ret, clientVars>>

GetPackageVersions(c, args) ==
  /\ c = FreeSlot
  /\ SingleStart(c, "getPackageVersions", args)

GetLatestVersion(c, args) ==
  /\ c = FreeSlot
  /\ SingleStart(c, "getLatestVersion", args)

\* A batch call up to its return or its await.  The clock may move
\* between the first loop, run at now, and the filter, run at t.
BatchStart(c, op, packages, t) ==
  /\ t >= now
  /\ now' = t
  /\ IF Len(packages) = 0
       THEN /\ resp' = Returned(c, op, packages, <<>>,
                         Content([results |-> <<>>,
                                  summary |-> [total |-> 0, successful |-> 0,
                                               failed |-> 0, cached |-> 0]]))
            /\ UNCHANGED <<cache, calls>>
       ELSE \E probed \in {ProbeLoop([store |-> cache, results |-> <<>>,
                                         hits |-> 0, misses |-> 0],
                                        op, packages, 1, now)} :
            \E filtered \in {FilterLoop([store |-> probed.store,
                                          toFetch |-> <<>>],
                                         op, packages, 1, t)} :
               IF probed.misses > 0 /\ Len(filtered.toFetch) > 0
                 THEN /\ cache' = filtered.store
                      /\ calls' = [calls EXCEPT
                                     ![c] = Awaiting(op, packages,
                                              filtered.toFetch,
                                              probed.results, probed.hits)]
                      /\ resp' = NoResponse
                 ELSE /\ cache' = IF probed.misses > 0 THEN filtered.store
                                  ELSE probed.store
                      /\ resp' = Returned(c, op, packages, <<>>,
                                   BatchContent(packages, probed.results,
                                                probed.hits))
                      /\ UNCHANGED calls
  /\ UNCHANGED <<maxEntries, ttlOverrides, ret, clientVars>>

GetPackageVersionsBatch(c, packages, t) ==
  /\ c = FreeSlot
  /\ BatchStart(c, "getPackageVersionsBatch", packages, t)

GetLatestVersionsBatch(c, packages, t) ==
  /\ c = FreeSlot
  /\ BatchStart(c, "getLatestVersionsBatch", packages, t)

AllSettledAndFulfilled(lookups) ==
  \A j \in 1..Len(lookups) :
    lookups[j] # Pending /\ lookups[j].outcome.ok

\* Promise.allSettled resolves: no lookup is pending.
AllSettled(lookups) == \A j \in 1..Len(lookups) : lookups[j] # Pending

LookupSettlesWritesAtOnce(c, i, b) ==
  /\ calls[c].pc = "awaiting"
  /\ i \in 1..Len(calls[c].lookups)
  /\ calls[c].lookups[i] = Pending
  /\ \E call \in {calls[c]} :
     \E outcome \in {ClientLookup(call.op, call.toFetch[i], b)} :
     \E lookups \in {[call.lookups EXCEPT ![i] = Settled(outcome)]} :
        IF ~AllSettled(lookups)
          THEN /\ calls' = [calls EXCEPT ![c].lookups = lookups]
               /\ resp' = NoResponse
               /\ cache' = IF outcome.ok
                             THEN CacheSetStore(cache, maxEntries,
                                    ttlOverrides,
                                    ToolKey(call.op, call.toFetch[i]),
                                    outcome.value, call.toFetch[i].system,
                                    now)
                             ELSE cache
          ELSE \E end \in {IF call.op \in BatchOps
                             THEN BatchEnd(call, lookups, cache, maxEntries,
                                           ttlOverrides, now)
                             ELSE IF call.op = "generatePurl"
                             THEN PurlEnd(call, outcome, cache, maxEntries,
                                          ttlOverrides, now)
                             ELSE SingleEnd(call, outcome, cache, maxEntries,
                                            ttlOverrides, now)} :
                  /\ cache' = end.store
                  /\ resp' = Returned(c, call.op, call.args,
                                      Fetched(call.toFetch, lookups),
                                      end.response)
                  /\ calls' = [calls EXCEPT ![c] = Free]
  /\ UNCHANGED <<maxEntries, ttlOverrides, now, ret, clientVars>>

\* A lookup of a call in flight settles; when it is the call's last, the
\* call resumes and runs to its return.
LookupSettles(c, i, b) ==
  /\ calls[c].pc = "awaiting"
  /\ i \in 1..Len(calls[c].lookups)
  /\ calls[c].lookups[i] = Pending
  /\ \E call \in {calls[c]} :
     \E outcome \in {ClientLookup(call.op, call.toFetch[i], b)} :
     \E lookups \in {[call.lookups EXCEPT ![i] = Settled(outcome)]} :
        IF ~AllSettled(lookups)
          THEN /\ calls' = [calls EXCEPT ![c].lookups = lookups]
               /\ resp' = NoResponse
               /\ UNCHANGED cache
          ELSE \E end \in {IF call.op \in BatchOps
                             THEN BatchEnd(call, lookups, cache, maxEntries,
                                           ttlOverrides, now)
                             ELSE IF call.op = "generatePurl"
                             THEN PurlEnd(call, outcome, cache, maxEntries,
                                          ttlOverrides, now)
                             ELSE SingleEnd(call, outcome, cache, maxEntries,
                                            ttlOverrides, now)} :
                  /\ cache' = end.store
                  /\ resp' = Returned(c, call.op, call.args,
                                      Fetched(call.toFetch, lookups),
                                      end.response)
                  /\ calls' = [calls EXCEPT ![c] = Free]
  /\ UNCHANGED <<maxEntries, ttlOverrides, now, ret, clientVars>>

ToolsNext ==
  \/ \E c \in CallIds, p \in ToolPackages : GetPackageVersions(c, p)
  \/ \E c \in CallIds, p \in LatestRequests : GetLatestVersion(c, p)
  \/ \E c \in CallIds, ps \in Batches, t \in ToolTimes :
       GetPackageVersionsBatch(c, ps, t)
  \/ \E c \in CallIds, ps \in Batches, t \in ToolTimes :
       GetLatestVersionsBatch(c, ps, t)
  \/ \E c \in CallIds, i \in 1..MaxBatch, b \in RegistryBehaviours :
       LookupSettles(c, i, b)
  \/ \E t \in ToolTimes : Tick(t)

SpecTools == ToolsInit /\ [][ToolsNext]_vars

\* generatePurl up to its return or the await of the inner
\* getLatestVersion.
GeneratePurl(c, args) ==
  /\ c = FreeSlot
  /\ IF args.version # NoVersion
       THEN /\ resp' = Returned(c, "generatePurl", args, <<>>,
                                Purl(args, args.version, "provided"))
            /\ UNCHANGED <<cache, calls>>
       ELSE \E cacheKey \in {ToolKey("getLatestVersion", args)} :
            \E cached \in {CacheGetValue(cache, cacheKey, now)} :
              /\ cache' = CacheGetStore(cache, cacheKey, now)
              /\ IF cached # Null
                   THEN /\ resp' = Returned(c, "generatePurl", args, <<>>,
                                     PurlFromLatest(args, Content(cached)))
                        /\ UNCHANGED calls
                   ELSE /\ calls' = [calls EXCEPT
                                       ![c] = Awaiting("generatePurl", args,
                                                       <<args>>, <<>>, 0)]
                        /\ resp' = NoResponse
  /\ UNCHANGED <<maxEntries, ttlOverrides, now, ret, clientVars>>

\* The single-item tools and generatePurl on one cache.
PurlNext ==
  \/ \E c \in CallIds, p \in ToolPackages : GetPackageVersions(c, p)
  \/ \E c \in CallIds, p \in LatestRequests : GetLatestVersion(c, p)
  \/ \E c \in CallIds, p \in PurlRequests : GeneratePurl(c, p)
  \/ \E c \in CallIds, i \in 1..MaxBatch, b \in RegistryBehaviours :
       LookupSettles(c, i, b)
  \/ \E t \in ToolTimes : Tick(t)

SpecPurl == ToolsInit /\ [][PurlNext]_vars

\* The batch calls alone; every lookup in flight settles, as each
\* fetchWithRetry ends after at most MAX_RETRIES attempts, each of them
\* bounded by its timeout.
BatchNext ==
  \/ \E c \in CallIds, ps \in Batches, t \in ToolTimes :
       GetPackageVersionsBatch(c, ps, t)
  \/ \E c \in CallIds, ps \in Batches, t \in ToolTimes :
       GetLatestVersionsBatch(c, ps, t)
  \/ \E c \in CallIds, i \in 1..MaxBatch, b \in RegistryBehaviours :
       LookupSettles(c, i, b)

EveryLookupSettles ==
  WF_vars(\E c \in CallIds, i \in 1..MaxBatch, b \in RegistryBehaviours :
            LookupSettles(c, i, b))

SpecBatchLive == ToolsInit /\ [][BatchNext]_vars /\ EveryLookupSettles

\* Overlapping calls: one call more than SpecTools holds in flight, on
\* one cache, against a registry that answers at once, and with the clock
\* at rest.
OverlapIds == 1..(MaxCalls + 1)
OverlapBehaviours ==
  {b \in RegistryBehaviours : Len(b.attempts) = 1 /\ (b.hasKey \/ b.attempts[1] = 404)}
OverlapBatches == [1..MaxBatch -> ToolPackages]

OverlapInit ==
  /\ cache = <<>>
  /\ maxEntries \in 1..MaxEntriesBound
  /\ ttlOverrides = <<>>
  /\ now = 0
  /\ ret = [op |-> "new"]
  /\ fr = [pc |-> "idle"]
  /\ sel = [pc |-> "idle"]
  /\ calls = [c \in OverlapIds |-> Free]
  /\ resp = NoResponse

OverlapNext ==
  \/ \E c \in OverlapIds, p \in ToolPackages : GetPackageVersions(c, p)
  \/ \E c \in OverlapIds, p \in ToolPackages : GetLatestVersion(c, p)
  \/ \E c \in OverlapIds, ps \in OverlapBatches :
       GetPackageVersionsBatch(c, ps, now)
  \/ \E c \in OverlapIds, i \in 1..MaxBatch, b \in OverlapBehaviours :
       LookupSettles(c, i, b)

SpecOverlap == OverlapInit /\ [][OverlapNext]_vars

(***************************************************************************)
(* Claims about the cache keys of the tool layer.  A cached value is a     *)
(* version list when it carries versions, a latest-version result when it  *)
(* carries version.                                                        *)
(***************************************************************************)
IsVersionList(value) == DOMAIN value = {"system", "name", "versions"}
IsLatestResult(value) ==
  DOMAIN value = {"version", "publishedAt", "isDefault"}
VersionListKeys ==
  {ToolKey(op, p) : op \in VersionListOps, p \in ToolPackages}
LatestKeys == {ToolKey(op, p) : op \in LatestOps, p \in ToolPackages}

\* C3: no operation stores a latest-version result under a key that an
\* operation on full version lists looks up, nor a version list under a
\* key that a latest-version operation looks up.
C3_KeysNeverCollide ==
  \A i \in 1..Len(cache) :
    /\ IsLatestResult(cache[i].data) => cache[i].key \notin VersionListKeys
    /\ IsVersionList(cache[i].data) => cache[i].key \notin LatestKeys

\* C4: a successful getPackageVersions returns a version list whose name
\* is the requested package, and a successful getLatestVersion returns a
\* value that carries a version.
C4_ResultShapes ==
  (resp.op \in {"getPackageVersions", "getLatestVersion"}
     /\ ~resp.response.isError) =>
    LET value == resp.response.structuredContent
    IN IF resp.op = "getPackageVersions"
         THEN IsVersionList(value) /\ value.name = resp.args.name
         ELSE "version" \in DOMAIN value

(***************************************************************************)
(* Claims about the batch calls.  resp is the return of a batch call:      *)
(* resp.fetched lists the lookups it awaited, in the order dispatched.     *)
(***************************************************************************)
BatchReturned == resp.op \in BatchOps
Results == resp.response.structuredContent.results
BatchSummary == resp.response.structuredContent.summary
HasValue(r) == "result" \in DOMAIN r
HasError(r) == "error" \in DOMAIN r
\* The results of the lookups, in the order they were pushed.
Misses == SelectSeq(Results, LAMBDA r : ~r.cached)
SamePackage(r, p) == r.system = p.system /\ r.name = p.name

\* C13: a batch call returns a success response whatever its lookups met;
\* every requested package has a result; the result of each lookup is that
\* lookup's own outcome, the value when it succeeded and the message of
\* its error when it failed; two lookups of which one succeeds and one
\* fails give successful = 1, failed = 1, total = 2.
C13_BatchIsolation ==
  BatchReturned =>
    /\ ~resp.response.isError
    /\ \A j \in 1..Len(resp.args) :
         \E k \in 1..Len(Results) : SamePackage(Results[k], resp.args[j])
    /\ Len(Misses) = Len(resp.fetched)
    /\ \A i \in 1..Len(resp.fetched) :
         LET r == Misses[i]
             f == resp.fetched[i]
         IN /\ SamePackage(r, f.package)
            /\ IF f.outcome.ok
                 THEN /\ HasValue(r) /\ ~HasError(r)
                      /\ r.result = f.outcome.value
                 ELSE /\ HasError(r) /\ ~HasValue(r)
                      /\ r.error = f.outcome.error.message
                      /\ Len(r.error) > 0
    /\ (/\ Len(resp.args) = 2
        /\ Len(resp.fetched) = 2
        /\ Len(Results) = 2
        /\ resp.fetched[1].outcome.ok # resp.fetched[2].outcome.ok) =>
         /\ BatchSummary.successful = 1
         /\ BatchSummary.failed = 1
         /\ BatchSummary.total = 2

\* [valid, nonexistent]: the first lookup returns a list, the second meets
\* a 404.
C13_Witness ==
  /\ resp.op = "getPackageVersionsBatch"
  /\ Len(resp.args) = 2
  /\ resp.args[1].name # resp.args[2].name
  /\ Len(resp.fetched) = 2
  /\ resp.fetched[1].outcome.ok
  /\ ~resp.fetched[2].outcome.ok
  /\ resp.fetched[2].outcome.error.status = 404
  /\ HasValue(Results[1])
  /\ Results[2].error = "HTTP 404: Not Found"
  /\ BatchSummary =
       [total |-> 2, successful |-> 1, failed |-> 1, cached |-> 0]

\* C14: the results list of a batch call on a non-empty list has exactly
\* one entry per requested package.
C14_OneResultPerRequest ==
  (BatchReturned /\ Len(resp.args) > 0) => Len(Results) = Len(resp.args)

CountOf(results, Test(_)) ==
  Cardinality({i \in 1..Len(results) : Test(results[i])})

\* C15: in a batch response total is the number of requests, successful
\* the number of results with a value, failed the number of results with
\* an error, cached the number of results served from the cache; every
\* result has exactly one of value and error; successful + failed = total
\* and cached <= successful.
C15_SummaryAgrees ==
  BatchReturned =>
    /\ BatchSummary.total = Len(resp.args)
    /\ BatchSummary.successful = CountOf(Results, HasValue)
    /\ BatchSummary.failed = CountOf(Results, HasError)
    /\ BatchSummary.cached = CountOf(Results, LAMBDA r : r.cached)
    /\ \A i \in 1..Len(Results) : HasValue(Results[i]) # HasError(Results[i])
    /\ BatchSummary.successful + BatchSummary.failed = BatchSummary.total
    /\ BatchSummary.cached <= BatchSummary.successful

(***************************************************************************)
(* Claims about successive calls.  A step in which a call resumes is one   *)
(* whose slot was awaiting and whose return is resp'; a step in which a    *)
(* call starts is one whose slot was free and is awaiting afterwards, or   *)
(* whose return is resp'.                                                  *)
(***************************************************************************)
Fresh(m, k, t) == MapHas(m, k) /\ ~Expired(MapGet(m, k), t)
Resumes(c) ==
  calls[c] # Free /\ resp' # NoResponse /\ resp'.call = c
StartsAwaiting(c) == calls[c] = Free /\ calls'[c] # Free
StartsReturning(c) ==
  calls[c] = Free /\ resp' # NoResponse /\ resp'.call = c
\* No set of the resuming call can evict: the store has room for every
\* lookup the call awaited.
RoomFor(c) == Len(cache) + Len(calls[c].toFetch) <= maxEntries
Reports(results, p, cached) ==
  \E k \in 1..Len(results) :
    SamePackage(results[k], p) /\ results[k].cached = cached
Among(packages, p) ==
  \E j \in 1..Len(packages) : SamePackage(packages[j], p)

\* The batch that fetches: each package whose lookup succeeded is reported
\* with cached false and a value, and unless a set evicts, its entry is in
\* the cache for the ecosystem's TTL.
C16_FirstBatch ==
  \A c \in CallIds :
    (Resumes(c) /\ calls[c].op \in BatchOps) =>
      \A i \in 1..Len(resp'.fetched) :
        LET f == resp'.fetched[i]
            results == resp'.response.structuredContent.results
            key == ToolKey(calls[c].op, f.package)
        IN f.outcome.ok =>
             /\ \E k \in 1..Len(results) :
                  /\ SamePackage(results[k], f.package)
                  /\ ~results[k].cached
                  /\ HasValue(results[k])
             /\ RoomFor(c) =>
                  /\ MapHas(cache', key)
                  /\ MapGet(cache', key).expiresAt =
                       now' + DEFAULT_TTL_MS(f.package.system)

\* The batch of the same kind that finds the entry: the package is
\* reported with cached true and is not among the lookups it dispatches.
C16_SecondBatch ==
  \A c \in CallIds, op \in BatchOps, p \in ToolPackages :
    Fresh(cache, ToolKey(op, p), now') =>
      /\ (StartsAwaiting(c) /\ calls'[c].op = op
            /\ Among(calls'[c].args, p)) =>
           /\ Reports(calls'[c].results, p, TRUE)
           /\ ~Reports(calls'[c].results, p, FALSE)
           /\ ~Among(calls'[c].toFetch, p)
      /\ (StartsReturning(c) /\ resp'.op = op /\ Among(resp'.args, p)) =>
           /\ Reports(resp'.response.structuredContent.results, p, TRUE)
           /\ ~Reports(resp'.response.structuredContent.results, p, FALSE)
           /\ resp'.fetched = <<>>

\* The batch that resumes: it has awaited the lookups it dispatched and no
\* other, and the results of its first loop are returned as they were.
C16_Resumed ==
  \A c \in CallIds :
    (Resumes(c) /\ calls[c].op \in BatchOps) =>
      /\ Len(resp'.fetched) = Len(calls[c].toFetch)
      /\ \A i \in 1..Len(resp'.fetched) :
           resp'.fetched[i].package = calls[c].toFetch[i]
      /\ \A k \in 1..Len(calls[c].results) :
           resp'.response.structuredContent.results[k] = calls[c].results[k]
      /\ \A k \in 1..Len(resp'.response.structuredContent.results) :
           k > Len(calls[c].results) =>
             ~resp'.response.structuredContent.results[k].cached

\* C16: of two successive batches of the same kind that request the same
\* package, the first one's lookup succeeding and the entry neither
\* expired, evicted nor cleared in between, the first reports the package
\* with cached false, the second reports it with cached true and issues no
\* lookup for it.
C16_SecondBatchServedFromCache ==
  [][C16_FirstBatch /\ C16_SecondBatch /\ C16_Resumed]_vars

\* A getLatestVersionsBatch for a returns a's latest version from the
\* cache without a lookup: only an earlier getLatestVersionsBatch writes a
\* latest version under a's key.
C16_Witness ==
  /\ resp.op = "getLatestVersionsBatch"
  /\ Len(resp.args) = 1
  /\ resp.args[1].name = "a"
  /\ resp.fetched = <<>>
  /\ Len(Results) = 1
  /\ Results[1].cached
  /\ HasValue(Results[1])
  /\ IsLatestResult(Results[1].result)

\* C17: after a successful getLatestVersion(system, name), a
\* getLatestVersionsBatch that contains (system, name) and starts while
\* the entry of the single call is in the cache and not expired reports
\* the package from the cache and dispatches no lookup for it.
C17_BatchSharesLatestEntry ==
  [][\A c \in CallIds :
       (/\ resp.op = "getLatestVersion"
        /\ ~resp.response.isError
        /\ Fresh(cache, ToolKey("getLatestVersion", resp.args), now')) =>
         /\ (StartsAwaiting(c) /\ calls'[c].op = "getLatestVersionsBatch"
               /\ Among(calls'[c].args, resp.args)) =>
              /\ Reports(calls'[c].results, resp.args, TRUE)
              /\ ~Among(calls'[c].toFetch, resp.args)
         /\ (StartsReturning(c) /\ resp'.op = "getLatestVersionsBatch"
               /\ Among(resp'.args, resp.args)) =>
              Reports(resp'.response.structuredContent.results,
                      resp.args, TRUE)]_vars

\* The getPackageVersions call that fetches: it has awaited one lookup,
\* returns the lookup's value and leaves it in the cache for the TTL.
C18_FirstCall ==
  \A c \in CallIds :
    (Resumes(c) /\ calls[c].op = "getPackageVersions"
       /\ ~resp'.response.isError) =>
      LET key == ToolKey("getPackageVersions", calls[c].args)
      IN /\ Len(resp'.fetched) = 1
         /\ resp'.fetched[1].package = calls[c].args
         /\ resp'.fetched[1].outcome.ok
         /\ resp'.response = Content(resp'.fetched[1].outcome.value)
         /\ MapHas(cache', key)
         /\ MapGet(cache', key).data = resp'.response.structuredContent
         /\ MapGet(cache', key).expiresAt =
              now' + DEFAULT_TTL_MS(calls[c].args.system)

\* The getPackageVersions call that finds the entry: it returns the
\* entry's data at once and awaits no lookup.
C18_SecondCall ==
  \A c \in CallIds, p \in ToolPackages :
    LET key == ToolKey("getPackageVersions", p)
    IN (/\ Fresh(cache, key, now)
        /\ calls[c] = Free
        /\ \/ calls'[c] # Free /\ calls'[c].op = "getPackageVersions"
                /\ calls'[c].args = p
           \/ resp' # NoResponse /\ resp'.call = c
                /\ resp'.op = "getPackageVersions" /\ resp'.args = p) =>
         /\ calls'[c] = Free
         /\ resp'.fetched = <<>>
         /\ resp'.response = Content(MapGet(cache, key).data)

\* The two calls one after the other.
C18_Successive ==
  \A c \in CallIds :
    (/\ resp.op = "getPackageVersions"
     /\ ~resp.response.isError
     /\ Len(resp.fetched) = 1
     /\ calls[c] = Free
     /\ \/ calls'[c] # Free /\ calls'[c].op = "getPackageVersions"
             /\ calls'[c].args = resp.args
        \/ resp' # NoResponse /\ resp'.call = c
             /\ resp'.op = "getPackageVersions" /\ resp'.args = resp.args) =>
      /\ calls'[c] = Free
      /\ resp'.fetched = <<>>
      /\ resp'.response = resp.response

\* C18: of two successive successful getPackageVersions calls for the same
\* package, the second within the TTL and the entry neither evicted nor
\* cleared in between, the first awaits one registry lookup, the second
\* none, and both return the same data.
C18_OneLookupSameData ==
  [][C18_FirstCall /\ C18_SecondCall /\ C18_Successive]_vars

\* A getPackageVersions call answered with a version list from the cache.
C18_Witness ==
  /\ resp.op = "getPackageVersions"
  /\ resp.args.name = "a"
  /\ resp.fetched = <<>>
  /\ ~resp.response.isError
  /\ IsVersionList(resp.response.structuredContent)
  /\ MapHas(cache, ToolKey("getPackageVersions", resp.args))
  /\ MapGet(cache, ToolKey("getPackageVersions", resp.args)).data =
       resp.response.structuredContent

(***************************************************************************)
(* Claims about Cache.set.                                                 *)
(***************************************************************************)
\* The ecosystem a key of KeyArgs was built for.
SystemOf(k) == (CHOOSE a \in KeyArgs : packageKey(a[1], a[2]) = k)[1]
\* The duration last passed to setTTLOverride for the ecosystem, or the
\* ecosystem's default when none was.
LastOverrideOrDefault(system) ==
  IF system \in DOMAIN ttlOverrides THEN ttlOverrides[system]
  ELSE CASE system = "NPM" -> 30 * 60 * 1000
         [] system \in {"PYPI", "RUBYGEMS", "NUGET"} -> 60 * 60 * 1000
         [] system \in {"CARGO", "GO"} -> 120 * 60 * 1000

\* C19: a set stores expiresAt = now + ttl(system), ttl(system) being the
\* duration last passed to setTTLOverride for the ecosystem, whatever that
\* duration, and the ecosystem's default when there was no such call.
C19_SetExpiry ==
  [][ret'.op = "set" =>
       /\ MapHas(cache', ret'.key)
       /\ MapGet(cache', ret'.key).expiresAt =
            now + LastOverrideOrDefault(SystemOf(ret'.key))]_vars

\* The key the next set at capacity evicts: none in an empty store.
NextVictim(m) == IF m = <<>> THEN {} ELSE {m[1].key}
Others(m, k) == SelectSeq(m, LAMBDA e : e.key # k)
\* The set has removed the earliest entry and no other: the entries of
\* other keys are the ones that followed it, in their order, and the key
\* set is present (as the newest when it was the earliest's own).
EvictedEarliest ==
  /\ Len(cache) >= 1
  /\ Others(cache', ret'.key) = Others(Tail(cache), ret'.key)
  /\ MapHas(cache', ret'.key)
  /\ cache[1].key = ret'.key => cache'[Len(cache')].key = ret'.key
  /\ MapGet(cache', ret'.key).expiresAt >= now

C21_CleanupContract ==
  [][ret'.op = "cleanup" =>
       /\ \A i \in 1..Len(cache') : now <= cache'[i].expiresAt
       /\ cache' = SelectSeq(cache, LAMBDA e : now <= e.expiresAt)
       /\ ret'.removed =
            Cardinality({i \in 1..Len(cache) : now > cache[i].expiresAt})
       /\ ret'.removed = Len(cache) - Len(cache')]_vars

\* A cleanup that removed an expired entry and kept a live one.
C21_Witness ==
  /\ ret.op = "cleanup"
  /\ ret.removed >= 1
  /\ Len(cache) >= 1
  /\ now <= cache[1].expiresAt

(***************************************************************************)
(* DepsDevClient.findPackage (src/depsdev/client.ts), against every        *)
(* registry behaviour: what each of the MAX_RETRIES attempts meets (0 for  *)
(* no response) and the list a 200 answer carries.  sel holds the call.    *)
(***************************************************************************)
FindStatuses == {0, 200, 404, 500, 503}
ListedVersion(i) == Plain(<<"1", ".", "0", ".">> \o NumToChars(i))
FindBehaviours ==
  {[attempts |-> a, hasKey |-> k, versions |-> [i \in 1..n |-> ListedVersion(i)]] :
     a \in [1..MAX_RETRIES -> FindStatuses], k \in BOOLEAN,
     n \in 0..MaxVersions}

findPackageSwallowsAll(system, name, b) ==
  The({IF versionsData.ok
         THEN [ok |-> TRUE,
               value |-> [exists |-> TRUE,
                          versionsCount |-> Len(versionsData.value.versions)]]
         ELSE [ok |-> TRUE, value |-> [exists |-> FALSE, versionsCount |-> 0]] :
       versionsData \in {clientGetPackageVersions(system, name, b)}})

\* The try block and the catch: a 404 is answered, anything else rethrown.
findPackage(system, name, b) ==
  The({IF versionsData.ok
         THEN [ok |-> TRUE,
               value |-> [exists |-> TRUE,
                          versionsCount |-> Len(versionsData.value.versions)]]
       ELSE IF versionsData.error.status = 404
         THEN [ok |-> TRUE, value |-> [exists |-> FALSE, versionsCount |-> 0]]
       ELSE versionsData :
       versionsData \in {clientGetPackageVersions(system, name, b)}})

FindInit ==
  /\ cache = <<>>
  /\ maxEntries = MaxEntriesBound
  /\ ttlOverrides = <<>>
  /\ now = 0
  /\ ret = [op |-> "new"]
  /\ fr = [pc |-> "idle"]
  /\ \E s \in Systems, n \in Names, b \in FindBehaviours :
       sel = [pc |-> "finding", system |-> s, name |-> n, behaviour |-> b]
  /\ calls = [c \in CallIds |-> Free]
  /\ resp = NoResponse

FindPackage ==
  /\ sel.pc = "finding"
  /\ sel' = [sel EXCEPT !.pc = "found"] @@
            [lookup |-> clientGetPackageVersions(sel.system, sel.name,
                                                 sel.behaviour),
             result |-> findPackage(sel.system, sel.name, sel.behaviour)]
  /\ UNCHANGED <<cacheVars, fr, toolVars>>

FindNext == FindPackage

SpecFind == FindInit /\ [][FindNext]_vars

\* C22: findPackage returns {exists: false, versionsCount: 0} exactly when
\* the version fetch fails with an error of status 404; it returns
\* {exists: true, versionsCount: n}, n the length of the fetched list,
\* when the fetch succeeds; it rethrows every other error as it is.
C22_FindPackageContract ==
  sel.pc = "found" =>
    /\ (~sel.lookup.ok /\ sel.lookup.error.status = 404) <=>
         (sel.result.ok /\ sel.result.value =
                             [exists |-> FALSE, versionsCount |-> 0])
    /\ sel.lookup.ok =>
         /\ sel.result.ok
         /\ sel.result.value =
              [exists |-> TRUE,
               versionsCount |-> Len(sel.behaviour.versions)]
    /\ (~sel.lookup.ok /\ sel.lookup.error.status # 404) =>
         /\ ~sel.result.ok
         /\ sel.result.error = sel.lookup.error

\* A fetch that met a 503 and then a 404: exists false.
C22_Witness ==
  /\ sel.pc = "found"
  /\ sel.behaviour.attempts[1] = 503
  /\ sel.behaviour.attempts[2] = 404
  /\ ~sel.lookup.ok
  /\ sel.lookup.error.status = 404
  /\ sel.result = [ok |-> TRUE,
                   value |-> [exists |-> FALSE, versionsCount |-> 0]]

(***************************************************************************)
(* Determinism of the selection.  find and filter are functions of the     *)
(* list; Array.prototype.sort is stable, and its order is fixed by the     *)
(* language only for a consistent comparator: otherwise the order is left  *)
(* to the implementation.                                                  *)
(***************************************************************************)
CandidateIndices == {i \in Listed : Candidate(i)}
Cmp(i, j) == Sign(CompareVersions(sel.versions[i], sel.versions[j]))
\* The comparator's sign on every pair of candidates, computed once.
CmpTable == {<<i, j, Cmp(i, j)>> : i \in CandidateIndices, j \in CandidateIndices}
\* The comparator is consistent on the candidates.
ConsistentOn(I, T) ==
  /\ \A i \in I : <<i, i, 0>> \in T
  /\ \A i, j \in I, x \in {-1, 0, 1} :
       <<i, j, x>> \in T => <<j, i, 0 - x>> \in T
  /\ \A i, j, k \in I :
       /\ (<<i, j, 0>> \in T /\ <<j, k, 0>> \in T) => <<i, k, 0>> \in T
       /\ (<<i, j, -1>> \in T /\ <<j, k, -1>> \in T) => <<i, k, -1>> \in T
       /\ <<i, j, 0>> \in T =>
            \A x \in {-1, 0, 1} : <<i, k, x>> \in T <=> <<j, k, x>> \in T
ConsistentComparator ==
  \A T \in {CmpTable} : ConsistentOn(CandidateIndices, T)
\* The candidates a stable sort may put first.
SortedFirstOf(I, T) ==
  {i \in I :
     \A j \in I \ {i} :
       <<i, j, -1>> \in T \/ (<<i, j, 0>> \in T /\ i < j)}
SortedFirst == SortedFirstOf(CandidateIndices, CmpTable)

\* C23: for a fixed list and a fixed flag getLatestVersion returns the same
\* version on every run: the comparator is consistent, one candidate only
\* can come first in a stable sort and it is the one returned; a second
\* run on the same inputs returns the same.
C23_SelectionDeterministic ==
  Selected =>
    /\ ConsistentComparator
    /\ (~FastPath /\ CandidateIndices # {}) =>
         \A first \in {SortedFirst} :
           /\ Cardinality(first) = 1
           /\ sel.result.ok
           /\ \A i \in first :
                sel.result.value.version = sel.versions[i].version
    /\ sel.result = getLatestVersion(sel.versions, sel.includePrerelease,
                                     SelectEndpoint)

\* Two candidates of equal precedence, 1.0.0 and v1.0.0, and a third: the
\* one listed first of the two is returned.
C23_Witness ==
  /\ Selected
  /\ ~FastPath
  /\ Cardinality(CandidateIndices) = 3
  /\ \E i, j \in CandidateIndices :
       /\ i < j
       /\ {sel.versions[i].version, sel.versions[j].version} =
            {V_1_0_0, V_v1_0_0}
       /\ sel.result.ok
       /\ sel.result.value.version = sel.versions[i].version

(***************************************************************************)
(* Claims about generatePurl.                                              *)
(***************************************************************************)
\* C24: a generatePurl call without a version and without includePrerelease
\* never puts a semver prerelease in the PURL, whatever tool calls came
\* before it.
C24_PurlNeverPrerelease ==
  (/\ resp.op = "generatePurl"
   /\ resp.args.version = NoVersion
   /\ ~resp.args.includePrerelease
   /\ ~resp.response.isError) =>
    ~IsPrerelease(resp.response.structuredContent.version)

(***************************************************************************)
(* Claims about the errors of the single-item calls.                       *)
(***************************************************************************)
SingleOps == {"getPackageVersions", "getLatestVersion"}
Entries(m) == {m[i] : i \in 1..Len(m)}

C26_OneLookupPerMiss ==
  [][\A c \in CallIds :
       /\ (StartsAwaiting(c) /\ calls'[c].op \in BatchOps) =>
            /\ calls'[c].toFetch =
                 SelectSeq(calls'[c].args,
                           LAMBDA p : ~Fresh(cache, ToolKey(calls'[c].op, p),
                                             now'))
            /\ Len(calls'[c].lookups) = Len(calls'[c].toFetch)
       /\ (Resumes(c) /\ calls[c].op \in BatchOps) =>
            /\ Len(resp'.fetched) = Len(calls[c].toFetch)
            /\ Len(resp'.fetched) <= Len(resp'.args)
            /\ \A i \in 1..Len(resp'.fetched) :
                 /\ resp'.fetched[i].package = calls[c].toFetch[i]
                 /\ resp'.fetched[i].outcome.requests \in 1..3
       /\ (StartsReturning(c) /\ resp'.op \in BatchOps) =>
            resp'.fetched = <<>>]_vars

\* A batch of twice the same package, both lookups dispatched; one made
\* three requests and failed, the other one request.
C26_Witness ==
  /\ resp.op = "getPackageVersionsBatch"
  /\ Len(resp.args) = 2
  /\ resp.args[1] = resp.args[2]
  /\ Len(resp.fetched) = 2
  /\ resp.fetched[1].outcome.requests = 3
  /\ ~resp.fetched[1].outcome.ok
  /\ resp.fetched[2].outcome.requests = 1

PendingOf(c) ==
  {i \in 1..Len(calls[c].lookups) : calls[c].lookups[i] = Pending}
\* A batch in flight returns in no step but the one in which its last
\* pending lookup settles, whatever the lookups settled so far met.
C27_ReturnsAfterAll ==
  \A c \in CallIds :
    (calls[c] # Free /\ calls[c].op \in BatchOps) =>
      /\ PendingOf(c) # {}
      /\ Cardinality(PendingOf(c)) > 1 =>
           /\ calls'[c] # Free
           /\ resp' = NoResponse \/ resp'.call # c
      /\ Resumes(c) =>
           /\ Cardinality(PendingOf(c)) = 1
           /\ calls'[c] = Free
           /\ \A i \in 1..Len(calls[c].lookups) :
                i \notin PendingOf(c) =>
                  resp'.fetched[i].outcome = calls[c].lookups[i].outcome

\* C27: a batch call returns only once every lookup it dispatched has
\* settled, a failed lookup never making it return before the others; and
\* when every lookup settles, the call returns.
C27_AllSettleThenReturn ==
  /\ [][C27_ReturnsAfterAll]_vars
  /\ \A c \in CallIds : (calls[c] # Free) ~> (calls[c] = Free)

\* A batch of two lookups has returned; the first had failed.
C27_Witness ==
  /\ resp.op = "getLatestVersionsBatch"
  /\ Len(resp.fetched) = 2
  /\ ~resp.fetched[1].outcome.ok
  /\ resp.fetched[2].outcome.ok
  /\ Len(Results) = 2
  /\ calls[resp.call] = Free

(***************************************************************************)
(* Claims about overlapping calls.                                         *)
(***************************************************************************)
\* C28: with calls overlapping at their awaits on one cache, built with a
\* positive maxEntries, the cache never holds more than maxEntries
\* entries, and no key has two entries.
C28_OverlapKeepsCapacity ==
  /\ maxEntries >= 1
  /\ Len(cache) <= maxEntries
  /\ \A i, j \in 1..Len(cache) : cache[i].key = cache[j].key => i = j

\* A call has returned after writing to a full cache while another call
\* is still awaiting its lookup.
C28_Witness ==
  /\ resp # NoResponse
  /\ resp.fetched # <<>>
  /\ resp.fetched[1].outcome.ok
  /\ \E d \in DOMAIN calls : d # resp.call /\ calls[d] # Free
  /\ Len(cache) = maxEntries

(***************************************************************************)
(* The requests of one batch, each a fetchWithRetry of its own (client.ts  *)
(* 231-240): fr[i] holds the locals of request i, the instant at which     *)
(* the timer of its attempt in flight fires (fetchWithTimeout) and the     *)
(* instant at which its backoff sleep ends.  The clock moves from one      *)
(* timer to the next; a timer that is due fires before the clock moves on. *)
(***************************************************************************)
RequestIds == 1..MaxBatch
RequestStatuses == {200, 404, 503}
RequestEndpoint(i) == "GET /systems/NPM/packages/" \o ToString(i)
AbortError == [status |-> Undefined, message |-> AbortMessage]

\* The requests whose fetch the controller of request i aborts.
AbortTargetsShared(i) == {j \in RequestIds : fr[j].pc = "fetching"}
AbortTargets(i) == {i}

\* The attempt of r has ended at t: a sleep, when one follows, ends after
\* the delay just computed.
AfterAttempt(r, t) ==
  IF r.pc = "sleeping"
    THEN [r EXCEPT !.wakeAt = t + r.delays[Len(r.delays)]]
    ELSE r

AbortInit ==
  /\ cache = <<>>
  /\ maxEntries = MaxEntriesBound
  /\ ttlOverrides = <<>>
  /\ now = 0
  /\ ret = [op |-> "new"]
  /\ fr = [i \in RequestIds |->
             FrStart(RequestEndpoint(i)) @@
               [timer |-> REQUEST_TIMEOUT_MS, wakeAt |-> 0]]
  /\ sel = [pc |-> "idle"]
  /\ calls = [c \in CallIds |-> Free]
  /\ resp = NoResponse

\* fetch resolves before the timer of the attempt fires.
RequestResponds(i, status) ==
  /\ fr[i].pc = "fetching"
  /\ now < fr[i].timer
  /\ fr' = [fr EXCEPT
              ![i] = AfterAttempt(FrOnResponse(@, status, "Not Found", 0),
                                  now)]
  /\ UNCHANGED <<cacheVars, sel, toolVars>>

\* The timer of request i fires: its controller aborts, fetch rejects.
RequestTimesOut(i) ==
  /\ fr[i].pc = "fetching"
  /\ now >= fr[i].timer
  /\ fr' = [j \in RequestIds |->
              IF j \in AbortTargets(i) /\ fr[j].pc = "fetching"
                THEN AfterAttempt(FrCatch(fr[j], AbortError, 0), now)
                ELSE fr[j]]
  /\ UNCHANGED <<cacheVars, sel, toolVars>>

\* The sleep of request i is over: the next attempt and its timer.
RequestWakes(i) ==
  /\ fr[i].pc = "sleeping"
  /\ now >= fr[i].wakeAt
  /\ fr' = [fr EXCEPT
              ![i] = [FrOnWake(@) EXCEPT !.timer = now + REQUEST_TIMEOUT_MS]]
  /\ UNCHANGED <<cacheVars, sel, toolVars>>

Due(i) ==
  \/ fr[i].pc = "fetching" /\ now >= fr[i].timer
  \/ fr[i].pc = "sleeping" /\ now >= fr[i].wakeAt
NextEvents ==
  {fr[i].timer : i \in {j \in RequestIds : fr[j].pc = "fetching"}}
    \cup {fr[i].wakeAt : i \in {j \in RequestIds : fr[j].pc = "sleeping"}}

\* The clock reaches the next timer.
TimePasses ==
  /\ \A i \in RequestIds : ~Due(i)
  /\ NextEvents # {}
  /\ now' = CHOOSE t \in NextEvents : \A u \in NextEvents : t <= u
  /\ UNCHANGED <<cache, maxEntries, ttlOverrides, ret, clientVars, toolVars>>

AbortNext ==
  \/ \E i \in RequestIds, status \in RequestStatuses :
       RequestResponds(i, status)
  \/ \E i \in RequestIds : RequestTimesOut(i)
  \/ \E i \in RequestIds : RequestWakes(i)
  \/ TimePasses

SpecAbort == AbortInit /\ [][AbortNext]_vars

\* The timer of request i fires in this step.
TimedOut(i) ==
  fr[i].pc = "fetching" /\ now >= fr[i].timer /\ fr'[i] # fr[i]

\* C29: an attempt with no response when its own 10 s timeout elapses is
\* aborted; the abort is a retryable network error of that request, which
\* sleeps and tries again unless the attempt was its last; no other
\* request in flight is aborted, failed or changed by it.
C29_AbortIsOwn ==
  [][\A i \in RequestIds :
       /\ (fr[i].pc = "fetching" /\ fr'[i].pc = "fetching") =>
            now' <= fr[i].timer
       /\ fr[i].pc = "fetching" => fr[i].timer - now <= 10000
       /\ TimedOut(i) =>
            /\ now = fr[i].timer
            /\ fr'[i].lastError = AbortMessage
            /\ fr'[i].requests = fr[i].requests
            /\ IF fr[i].requests < 3
                 THEN fr'[i].pc = "sleeping"
                 ELSE /\ fr'[i].pc = "thrown"
                      /\ fr'[i].result.status = 0
            /\ \A j \in RequestIds \ {i} : fr'[j] = fr[j]]_vars

\* One request failed after three aborted attempts while another got its
\* answer at the first.
C29_Witness ==
  \E i, j \in RequestIds :
    /\ fr[i].pc = "thrown"
    /\ fr[i].lastError = AbortMessage
    /\ fr[i].requests = 3
    /\ fr[i].delays = <<500, 1000>>
    /\ fr[j].pc = "returned"
    /\ fr[j].requests = 1

(***************************************************************************)
(* Claims about the order of a batch's results.                            *)
(***************************************************************************)
PackageOf(r) == [system |-> r.system, name |-> r.name]
PackagesOf(l) == [i \in 1..Len(l) |-> PackageOf(l[i])]
\* The results of a response: those served from the cache, and the others.
HitsIn(results) == SelectSeq(results, LAMBDA r : r.cached)
MissesIn(results) == SelectSeq(results, LAMBDA r : ~r.cached)
\* The requested packages that hold an unexpired entry at t, in request
\* order.
FreshAt(op, args, t) ==
  SelectSeq(args, LAMBDA p : Fresh(cache, ToolKey(op, p), t))
StaleAt(op, args, t) ==
  SelectSeq(args, LAMBDA p : ~Fresh(cache, ToolKey(op, p), t))
\* The i-th result past the hits is the i-th lookup's outcome.
CarriesOutcome(r, outcome) ==
  IF outcome.ok
    THEN HasValue(r) /\ r.result = outcome.value
    ELSE HasError(r) /\ r.error = outcome.error.message

\* C30: the results of a batch are the cache hits in request order, then
\* the lookups' results in the order the lookups were dispatched, which is
\* request order; the i-th of them is the outcome of the i-th lookup,
\* whichever lookup settled last.
C30_HitsThenMissesInOrder ==
  [][\A c \in CallIds :
       /\ (StartsAwaiting(c) /\ calls'[c].op \in BatchOps) =>
            /\ PackagesOf(calls'[c].results) =
                 PackagesOf(FreshAt(calls'[c].op, calls'[c].args, now))
            /\ \A i \in 1..Len(calls'[c].results) :
                 calls'[c].results[i].cached
            /\ calls'[c].toFetch =
                 StaleAt(calls'[c].op, calls'[c].args, now')
       /\ (StartsReturning(c) /\ resp'.op \in BatchOps) =>
            \A results \in {resp'.response.structuredContent.results} :
              /\ PackagesOf(results) =
                   PackagesOf(FreshAt(resp'.op, resp'.args, now))
              /\ \A i \in 1..Len(results) : results[i].cached
       /\ (Resumes(c) /\ calls[c].op \in BatchOps) =>
            \A results \in {resp'.response.structuredContent.results} :
            \A k \in PendingOf(c) :
              /\ results = HitsIn(results) \o MissesIn(results)
              /\ HitsIn(results) = calls[c].results
              /\ PackagesOf(MissesIn(results)) =
                   PackagesOf(calls[c].toFetch)
              /\ \A i \in 1..Len(calls[c].toFetch) :
                   /\ resp'.fetched[i].package = calls[c].toFetch[i]
                   /\ i # k =>
                        resp'.fetched[i].outcome =
                          calls[c].lookups[i].outcome
                   /\ CarriesOutcome(MissesIn(results)[i],
                                     resp'.fetched[i].outcome)]_vars

\* The second lookup of a batch has settled, with a failure, while the
\* first is pending.
C30_Witness ==
  \E c \in CallIds :
    /\ calls[c] # Free
    /\ calls[c].op \in BatchOps
    /\ Len(calls[c].lookups) = 2
    /\ calls[c].toFetch[1] # calls[c].toFetch[2]
    /\ calls[c].lookups[1] = Pending
    /\ calls[c].lookups[2] # Pending
    /\ ~calls[c].lookups[2].outcome.ok

(***************************************************************************)
(* Claims about what a batch writes to the cache.                          *)
(***************************************************************************)
\* The lookups of the resuming call c for the key of its i-th lookup.
SameKeyLookups(c, i) ==
  {j \in 1..Len(resp'.fetched) :
     ToolKey(calls[c].op, resp'.fetched[j].package) =
       ToolKey(calls[c].op, resp'.fetched[i].package)}
\* The last lookup of the resuming call c that succeeded for the key of
\* its i-th lookup.
LastWriter(c, i) ==
  CHOOSE j \in SameKeyLookups(c, i) :
    /\ resp'.fetched[j].outcome.ok
    /\ \A l \in SameKeyLookups(c, i) : resp'.fetched[l].outcome.ok => l <= j
\* A successful lookup is reported with cached false and its value, and,
\* unless a set evicts, its key holds the value of the last successful
\* lookup for it.
SuccessWritten(c, i) ==
  \E f \in {resp'.fetched[i]} :
  \E r \in {MissesIn(resp'.response.structuredContent.results)[i]} :
  \E key \in {ToolKey(calls[c].op, resp'.fetched[i].package)} :
    /\ ~r.cached /\ HasValue(r) /\ r.result = f.outcome.value
    /\ RoomFor(c) =>
         /\ Fresh(cache', key, now')
         /\ MapGet(cache', key).data =
              resp'.fetched[LastWriter(c, i)].outcome.value
\* A failed lookup is reported with its error and without a value.
FailureReported(c, i) ==
  \E r \in {MissesIn(resp'.response.structuredContent.results)[i]} :
    /\ ~r.cached /\ HasError(r) /\ ~HasValue(r)
NotCachedAfter(c, i) ==
  \A op \in BatchOps :
    ~MapHas(cache', ToolKey(op, resp'.fetched[i].package))
\* The key of the i-th lookup holds after the step what it held before, if
\* anything: the entry another call wrote, or none.
NotWritten(c, i) ==
  \E k \in {ToolKey(calls[c].op, resp'.fetched[i].package)} :
    MapHas(cache', k) => MapHas(cache, k) /\ MapGet(cache', k) = MapGet(cache, k)

\* C31 as stated: after the batch, the package of every failed lookup is
\* absent from the cache.
C31_FailedLookupIsMissAgain ==
  [][\A c \in CallIds :
       (Resumes(c) /\ calls[c].op \in BatchOps) =>
         \A i \in 1..Len(resp'.fetched) :
           IF resp'.fetched[i].outcome.ok
             THEN SuccessWritten(c, i)
             ELSE FailureReported(c, i) /\ NotCachedAfter(c, i)]_vars

\* C31: in a batch every successful lookup is written to the cache and
\* reported with cached false; a failed lookup is reported with its error
\* and writes nothing, so the key of a package none of whose lookups
\* succeeded holds after the batch what it held before: no entry, unless
\* an overlapping call has written one.
C31_OnlySuccessesWritten ==
  [][\A c \in CallIds :
       (Resumes(c) /\ calls[c].op \in BatchOps) =>
         \A i \in 1..Len(resp'.fetched) :
           IF resp'.fetched[i].outcome.ok
             THEN SuccessWritten(c, i)
             ELSE /\ FailureReported(c, i)
                  /\ (\A j \in SameKeyLookups(c, i) :
                        ~resp'.fetched[j].outcome.ok) =>
                       NotWritten(c, i)]_vars

\* Of the lookups of two packages the first succeeded and the second
\* failed: the cache holds the first package's key alone.
C31_Witness ==
  /\ resp.op \in BatchOps
  /\ Len(resp.fetched) = 2
  /\ resp.fetched[1].package # resp.fetched[2].package
  /\ resp.fetched[1].outcome.ok
  /\ ~resp.fetched[2].outcome.ok
  /\ HasError(MissesIn(Results)[2])
  /\ maxEntries = 2
  /\ Len(cache) = 1
  /\ cache[1].key = ToolKey(resp.op, resp.fetched[1].package)
  /\ cache[1].data = resp.fetched[1].outcome.value

(***************************************************************************)
(* Termination of fetchWithRetry.                                          *)
(***************************************************************************)
\* What a call has done so far: at most MAX_RETRIES attempts, none after a
\* 2xx answer, and at its end the first 2xx response or a RegistryError.
C32_AtMostThree ==
  fr.pc # "idle" =>
    /\ Attempts <= MAX_RETRIES
    /\ fr.requests <= MAX_RETRIES
    /\ \A i \in 1..Attempts : Success(fr.history[i]) => i = Attempts
    /\ (Attempts >= 1 /\ Success(fr.history[Attempts])) =>
         /\ fr.pc = "returned"
         /\ fr.result.status = fr.history[Attempts]
         /\ fr.requests = Attempts
    /\ fr.pc = "returned" =>
         Attempts >= 1 /\ Success(fr.history[Attempts])
    /\ fr.pc = "thrown" =>
         /\ DOMAIN fr.result = {"status", "endpoint", "message"}
         /\ fr.requests = Attempts
         /\ \A i \in 1..Attempts : ~Success(fr.history[i])
    /\ ~Ended => fr.requests \in {Attempts, Attempts + 1}

\* C32: fetchWithRetry ends after at most 3 attempts when every attempt
\* ends: with the response of the first attempt answered 2xx, after which
\* it makes no attempt, and with a RegistryError otherwise.
C32_TerminatesWithinThree ==
  /\ []C32_AtMostThree
  /\ [][Ended => fr' = fr]_vars
  /\ (fr.pc = "fetching") ~> Ended

\* The second attempt is answered 200 after a 503.
C32_Witness ==
  /\ fr.pc = "returned"
  /\ fr.history = <<503, 200>>
  /\ fr.requests = 2
  /\ fr.result.status = 200

(***************************************************************************)
(* generatePurl with and without a version.                                *)
(***************************************************************************)
PurlType ==
  [NPM |-> "npm", CARGO |-> "cargo", PYPI |-> "pypi", GO |-> "golang",
   RUBYGEMS |-> "gem", NUGET |-> "nuget"]
C34_NeverDeprecated ==
  (Selected /\ sel.result.ok) =>
    /\ \E i \in Listed :
         /\ Live(i)
         /\ sel.versions[i].version = sel.result.value.version
         /\ sel.versions[i].publishedAt = sel.result.value.publishedAt
    /\ \A i \in Listed :
         sel.versions[i].version = sel.result.value.version => Live(i)
    /\ FastPath => sel.result.value.isDefault

\* The default is deprecated, and so is the greatest version: the sort path
\* returns a lesser version that is not.
C34_Witness ==
  /\ Selected
  /\ sel.result.ok
  /\ ~FastPath
  /\ Len(sel.versions) = 3
  /\ sel.versions[1].version = V_2_0_0_alpha
  /\ sel.versions[1].isDefault /\ ~Live(1)
  /\ sel.versions[2].version = V_3_0_0b1 /\ ~Live(2)
  /\ sel.versions[3].version = V_1_0_0 /\ Live(3)
  /\ sel.result.value.version = V_1_0_0

(***************************************************************************)
(* The includePrerelease flag and the cache.                               *)
(***************************************************************************)
\* What the selection yields for a request, from the list the registry
\* holds.
SelectionFor(args) ==
  getLatestVersion(RegistryVersions, args.includePrerelease,
                   Endpoint(args.system, args.name))

\* C35: the version a getLatestVersion call returns is the one the
\* selection yields for the request's own includePrerelease value, whether
\* it was fetched or served from the cache.
C35_FlagRespected ==
  (/\ resp.op = "getLatestVersion"
   /\ ~resp.response.isError
   /\ "version" \in DOMAIN resp.response.structuredContent) =>
    /\ SelectionFor(resp.args).ok
    /\ resp.response.structuredContent.version =
         SelectionFor(resp.args).value.version

(***************************************************************************)
(* The HTTP worker: handleToolCall for get_package_versions and            *)
(* get_latest_version, on the worker's own cache (new Cache()) and client. *)
(* A call is suspended at its await of the client; the registry answers a  *)
(* lookup with a status and, on 200, with a version list.                  *)
(***************************************************************************)
WorkerMaxEntries == 1000
WorkerOps == {"get_package_versions", "get_latest_version"}
WorkerRequests ==
  {[system |-> "NPM", name |-> "a", includePrerelease |-> f] : f \in BOOLEAN}
WorkerStatuses == {200, 404}
WorkerVersions == {V_1_0_0, V_2_0_0_alpha}
\* The lists the registry answers with: up to two versions.
WorkerRecords == {v \in VersionRecords : v.version \in WorkerVersions}
WorkerLists ==
  UNION {{l \in [1..n -> WorkerRecords] : Distinct(l)} : n \in 0..2}
\* makeError(id, -32000, err.message || 'Internal error').
makeError(code, message) ==
  [isError |-> TRUE, code |-> code, message |-> message]
\* versions.find(v => v.isDefault) || versions[0]; undefined for [].
WorkerLatestOf(versions) ==
  IF FindDefault(versions) # 0 THEN versions[FindDefault(versions)]
  ELSE IF Len(versions) > 0 THEN versions[1]
  ELSE Null

WorkerInit ==
  /\ cache = <<>>
  /\ maxEntries = WorkerMaxEntries
  /\ ttlOverrides = <<>>
  /\ now = 0
  /\ ret = [op |-> "new"]
  /\ fr = [pc |-> "idle"]
  /\ sel = [pc |-> "idle"]
  /\ calls = [c \in CallIds |-> Free]
  /\ resp = NoResponse

\* case 'get_package_versions' up to its return on a hit or its await.
WorkerGetPackageVersions(c, args) ==
  /\ c = FreeSlot
  /\ \E cacheKey \in {packageKey(args.system, args.name)} :
     \E hit \in {CacheGetValue(cache, cacheKey, now)} :
       /\ cache' = CacheGetStore(cache, cacheKey, now)
       /\ IF hit # Null
            THEN /\ resp' = Returned(c, "get_package_versions", args, <<>>,
                                     Content(hit))
                 /\ UNCHANGED calls
            ELSE /\ calls' = [calls EXCEPT
                                ![c] = Awaiting("get_package_versions", args,
                                                <<args>>, <<>>, 0)]
                 /\ resp' = NoResponse
  /\ UNCHANGED <<maxEntries, ttlOverrides, now, ret, clientVars>>

\* case 'get_latest_version' up to its return on a cached list or its
\* await.
WorkerGetLatestVersion(c, args) ==
  /\ c = FreeSlot
  /\ \E cacheKey \in {packageKey(args.system, args.name)} :
     \E hit \in {CacheGetValue(cache, cacheKey, now)} :
       /\ cache' = CacheGetStore(cache, cacheKey, now)
       /\ IF hit # Null /\ "versions" \in DOMAIN hit
            THEN /\ resp' = Returned(c, "get_latest_version", args, <<>>,
                                     Content(WorkerLatestOf(hit.versions)))
                 /\ UNCHANGED calls
            ELSE /\ calls' = [calls EXCEPT
                                ![c] = Awaiting("get_latest_version", args,
                                                <<args>>, <<>>, 0)]
                 /\ resp' = NoResponse
  /\ UNCHANGED <<maxEntries, ttlOverrides, now, ret, clientVars>>

\* The client's call of a suspended handler settles: the handler sets the
\* cache (get_package_versions alone) and returns, or throws and the
\* request ends with makeError.
WorkerLookupSettles(c, status, l) ==
  /\ calls[c] # Free
  /\ calls[c].op \in WorkerOps
  /\ \E call \in {calls[c]} :
     \E b \in {[attempts |-> <<status>>, hasKey |-> TRUE,
                versions |-> IF status = 200 THEN l ELSE <<>>]} :
     \E outcome \in
          {IF call.op = "get_package_versions"
             THEN clientGetPackageVersions(call.args.system, call.args.name, b)
             ELSE clientGetLatestVersion(call.args.system, call.args.name,
                                         call.args.includePrerelease, b)} :
       /\ cache' =
            IF outcome.ok /\ call.op = "get_package_versions"
              THEN CacheSetStore(cache, maxEntries, ttlOverrides,
                                 packageKey(call.args.system, call.args.name),
                                 outcome.value, call.args.system, now)
              ELSE cache
       /\ resp' = Returned(c, call.op, call.args,
                           <<[package |-> call.args, outcome |-> outcome]>>,
                           IF outcome.ok THEN Content(outcome.value)
                           ELSE makeError(-32000, outcome.error.message))
       /\ calls' = [calls EXCEPT ![c] = Free]
  /\ UNCHANGED <<maxEntries, ttlOverrides, now, ret, clientVars>>

\* The clock moves past the expiry of what is cached.
WorkerTimePasses(t) ==
  /\ t > now
  /\ now' = t
  /\ resp' = NoResponse
  /\ UNCHANGED <<cache, maxEntries, ttlOverrides, ret, clientVars, calls>>

WorkerNext ==
  \/ \E c \in CallIds, p \in WorkerRequests : WorkerGetPackageVersions(c, p)
  \/ \E c \in CallIds, p \in WorkerRequests : WorkerGetLatestVersion(c, p)
  \/ \E c \in CallIds, status \in WorkerStatuses, l \in WorkerLists :
       WorkerLookupSettles(c, status, l)
  \/ \E t \in ToolTimes : WorkerTimePasses(t)

SpecWorker == WorkerInit /\ [][WorkerNext]_vars

\* The list the worker's cache holds for the package of the last response.
WorkerCachedList ==
  MapGet(cache, packageKey(resp.args.system, resp.args.name)).data.versions

\* C36: the worker's get_latest_version answered from a cached version
\* list returns the version DepsDevClient.getLatestVersion selects from
\* that list with the request's includePrerelease flag.
C36_WorkerCachedEqualsSelection ==
  (/\ resp.op = "get_latest_version"
   /\ resp.fetched = <<>>) =>
    \E selection \in {getLatestVersion(WorkerCachedList,
                                       resp.args.includePrerelease,
                                       Endpoint(resp.args.system,
                                                resp.args.name))} :
      /\ selection.ok
      /\ ~resp.response.isError
      /\ resp.response.structuredContent # Null
      /\ resp.response.structuredContent.version = selection.value.version

(***************************************************************************)
(* Overlapping calls and the writes of a batch.                            *)
(***************************************************************************)
\* Batch c is in flight and its lookup of a package with key k has
\* succeeded.
SucceededInFlight(c, k) ==
  /\ calls[c] # Free
  /\ calls[c].op \in BatchOps
  /\ \E i \in 1..Len(calls[c].lookups) :
       /\ calls[c].lookups[i] # Pending
       /\ calls[c].lookups[i].outcome.ok
       /\ ToolKey(calls[c].op, calls[c].toFetch[i]) = k
\* Call d starts in this step, with a get of key k.
StartsWithKey(d, k) ==
  \/ StartsAwaiting(d) /\ calls'[d].op \in SingleOps
       /\ ToolKey(calls'[d].op, calls'[d].args) = k
  \/ StartsReturning(d) /\ resp'.op \in SingleOps
       /\ ToolKey(resp'.op, resp'.args) = k

\* C37: a step in which a lookup of a batch settles and the batch stays in
\* flight leaves the cache as it was; a call that starts for a package
\* whose lookup in a batch in flight has succeeded, the key absent before
\* the batch settled it, finds no entry and awaits a lookup of its own.
C37_BatchWritesAtEnd ==
  [][\A c \in DOMAIN calls :
       /\ (calls[c] # Free /\ calls[c].op \in BatchOps
             /\ calls'[c] # Free /\ calls'[c] # calls[c]) =>
            /\ cache' = cache
            /\ PendingOf(c) # {}
            /\ resp' = NoResponse
       /\ \A d \in DOMAIN calls, p \in ToolPackages :
            \A k \in {ToolKey("getPackageVersionsBatch", p)} :
              (SucceededInFlight(c, k) /\ ~MapHas(cache, k)
                 /\ StartsWithKey(d, k)) =>
                /\ StartsAwaiting(d)
                /\ ~MapHas(cache', k)
                /\ SucceededInFlight(c, k)']_vars

\* A batch is in flight, its first lookup has succeeded, and a call that
\* started afterwards for the same package is awaiting its own lookup; the
\* cache holds no entry for the package.
C37_Witness ==
  \E c, d \in DOMAIN calls :
    /\ c # d
    /\ calls[c] # Free /\ calls[d] # Free
    /\ calls[c].op = "getPackageVersionsBatch"
    /\ calls[c].lookups[1] # Pending
    /\ calls[c].lookups[1].outcome.ok
    /\ calls[c].lookups[2] = Pending
    /\ calls[d].op = "getPackageVersions"
    /\ calls[d].args = calls[c].toFetch[1]
    /\ calls[d].lookups[1] = Pending
    /\ ~MapHas(cache, ToolKey(calls[c].op, calls[c].toFetch[1]))

(***************************************************************************)
(* Overlapping getPackageVersions calls on one cache, with the clock       *)
(* moving and the registry's list changing between their lookups.          *)
(***************************************************************************)
SameKeyBehaviours ==
  {[attempts |-> <<200>>, hasKey |-> TRUE, versions |-> RegistryVersions],
   [attempts |-> <<200>>, hasKey |-> TRUE, versions |-> <<Plain(V_1_0_0)>>],
   [attempts |-> <<404>>, hasKey |-> FALSE, versions |-> <<>>]}
SameKeyTimes == {0, 1000, DEFAULT_TTL_MS("NPM") + 1}

SameKeyNext ==
  \/ \E c \in OverlapIds, p \in ToolPackages : GetPackageVersions(c, p)
  \/ \E c \in OverlapIds, i \in 1..MaxBatch, b \in SameKeyBehaviours :
       LookupSettles(c, i, b)
  \/ \E t \in SameKeyTimes : Tick(t)

SpecSameKey == OverlapInit /\ [][SameKeyNext]_vars

KeyCount(m, k) == Cardinality({i \in 1..Len(m) : m[i].key = k})
\* Another getPackageVersions call for the key of call c is in flight.
OverlapsSameKey(c) ==
  \E d \in DOMAIN calls :
    /\ d # c
    /\ calls[d] # Free
    /\ calls[d].op = "getPackageVersions"
    /\ ToolKey(calls[d].op, calls[d].args) =
         ToolKey("getPackageVersions", calls'[c].args)

\* C38: a getPackageVersions call that starts on a miss while another is in
\* flight for the same package awaits a lookup of its own and leaves the
\* other's pending; each of them returns the value of its own lookup, and
\* when one completes the cache holds one entry for the key, with that
\* call's value and the expiry of that instant.
C38_LastWriterWins ==
  [][\A c \in DOMAIN calls :
       /\ (StartsAwaiting(c) /\ calls'[c].op = "getPackageVersions"
             /\ OverlapsSameKey(c)) =>
            /\ calls'[c].lookups = <<Pending>>
            /\ \A d \in DOMAIN calls : d # c => calls'[d] = calls[d]
       /\ (Resumes(c) /\ calls[c].op = "getPackageVersions") =>
            /\ Len(resp'.fetched) = 1
            /\ \A d \in DOMAIN calls : d # c => calls'[d] = calls[d]
            /\ resp'.fetched[1].outcome.ok =>
                 \E k \in {ToolKey("getPackageVersions", calls[c].args)} :
                   /\ ~resp'.response.isError
                   /\ resp'.response.structuredContent =
                        resp'.fetched[1].outcome.value
                   /\ KeyCount(cache', k) = 1
                   /\ MapGet(cache', k).data = resp'.fetched[1].outcome.value
                   /\ MapGet(cache', k).expiresAt =
                        now' + DEFAULT_TTL_MS(calls[c].args.system)]_vars

\* Of two calls for one package the first to complete has written its
\* value at instant 0; the other, still awaiting its own lookup, is the
\* one that will write last.
C38_Witness ==
  \E d \in DOMAIN calls :
    /\ resp.op = "getPackageVersions"
    /\ resp.call # d
    /\ resp.fetched # <<>>
    /\ resp.fetched[1].outcome.ok
    /\ calls[d] # Free
    /\ calls[d].op = "getPackageVersions"
    /\ calls[d].args = resp.args
    /\ calls[d].lookups = <<Pending>>
    /\ KeyCount(cache, ToolKey(resp.op, resp.args)) = 1
    /\ MapGet(cache, ToolKey(resp.op, resp.args)).data =
         resp.fetched[1].outcome.value

(***************************************************************************)
(* Cache.set on a key that is stored.                                      *)
(***************************************************************************)
\* C39: a set on a key the store holds replaces that key's entry alone:
\* every other entry stays and the number of entries is unchanged,
\* whatever the size of the store.
C39_OverwriteKeepsOthers ==
  [][(ret'.op = "set" /\ MapHas(cache, ret'.key)) =>
       /\ MapHas(cache', ret'.key)
       /\ Len(cache') = Len(cache)
       /\ Others(cache', ret'.key) = Others(cache, ret'.key)]_vars

====
